---- MODULE Spec2Model ----
(***************************************************************************)
(* HabitCoachAI: the check-in / HRV store and the dashboard analytics      *)
(* (streak, trend, smoothing, risk days, readiness, completion estimate),  *)
(* the statistical utilities permutation_test and quick_vif, the views as  *)
(* concurrent requests on tables with keys (check-ins, habit anchors), and *)
(* the prompt scheduler schedule_from_anchor.                              *)
(*                                                                         *)
(* Conventions                                                             *)
(*   - an optional value (Python None or a value) is a set: {} is None and *)
(*     {v} is the value v;                                                 *)
(*   - a calendar date is an integer day number, a timestamp an integer    *)
(*     number of slots, SlotsPerDay slots to the day, both taken in the    *)
(*     fixed zone America/New_York (the project's active time zone is      *)
(*     taken to be that zone, so a DateTimeField's __date is LocalDate);   *)
(*   - a float that is a mean of integers is a reduced fraction;           *)
(*   - RMSSD and resting heart rate are whole numbers (ms, bpm);           *)
(*   - the floats permutation_test compares are IEEE doubles, bit for bit; *)
(*     the floats of the estimator and of quick_vif are fixed-point       *)
(*     numbers (millionths).                                               *)
(***************************************************************************)
EXTENDS Integers, Sequences, FiniteSets, TLC

VARIABLES
    checkins,      \* the CheckIn table: a set of rows
    hrv_readings,  \* the HRVReading table: a set of rows
    habit_anchors, \* the HabitAnchor table: a set of rows
    now,           \* the clock, in slots
    call,          \* the arguments of a pending direct call of a pure helper
    response,      \* what the last operation returned
    frame          \* the locals of a running analytics function or of
                   \* the requests in flight

vars == <<checkins, hrv_readings, habit_anchors, now, call, response, frame>>

----------------------------------------------------------------------------
(* Bounds of the model *)

MaxNow == 2          \* the clock runs over 0..MaxNow
SlotsPerDay == 2     \* timestamps per calendar day
PastDays == 2        \* directly created rows reach this many days before day 0
MaxCheckIns == 3     \* rows of the CheckIn table
MaxReadings == 2     \* rows of the HRVReading table
MaxN == 3            \* window lengths tried on _last_n_days besides the dashboard's
MaxLen == 4          \* length of the sequences tried on _smooth
MaxK == 3            \* window sizes tried on _smooth
MaxHrvCheckIns == 1   \* rows of the CheckIn table where HRV readings are stored too
MaxRecent == 8       \* recent check-in counts tried on the linear model
MaxBack == 8         \* a check-in history reaches this many days before day 0
MaxOtherRows == 1    \* rows of the users other than the one with a history
MaxTotal == 3        \* group sizes and success counts tried on permutation_test
MaxIters == 2        \* iteration counts tried on permutation_test
MaxCols == 3         \* predictor columns tried on quick_vif
MaxColLen == 3       \* length of a predictor column
MaxColValue == 1     \* the column values are 0 .. MaxColValue
MaxRequests == 2     \* requests in flight at a time
MaxStored == 2       \* check-ins present when a request may add one
MaxAnchors == 1      \* habit anchors present when a request may add one
TicksPerMinute == 2  \* instants per minute tried on schedule_from_anchor
MaxScheduleDays == 1 \* days the reference times of schedule_from_anchor reach

----------------------------------------------------------------------------
(* Values *)

None == {}
Some(v) == {v}
IsNone(o) == o = {}
TheValue(o) == CHOOSE v \in o : TRUE

Users == {"alice", "bob"}

\* CheckIn.STATUS_CHOICES
STATUS_CHOICES == {"ok", "warn", "block"}

\* timezone.now().astimezone(tz).date()
LocalDate(t) == t \div SlotsPerDay

Today == LocalDate(now)

\* the dates a row created directly (ORM create, admin, seed command) may carry
DirectDates == (0 - PastDays) .. LocalDate(MaxNow)

RECURSIVE Gcd(_, _)
Gcd(a, b) == IF b = 0 THEN a ELSE Gcd(b, a % b)

\* the float num/den (den > 0), as a reduced fraction
Float(num, den) ==
    LET g == Gcd(IF num < 0 THEN 0 - num ELSE num, den)
    IN  [num |-> num \div g, den |-> den \div g]

NoResponse == [kind |-> "none"]
RECURSIVE SeqsUpTo(_, _)
\* the sequences over S of length at most n
SeqsUpTo(S, n) ==
    IF n = 0 THEN {<<>>}
    ELSE LET shorter == SeqsUpTo(S, n - 1)
         IN  shorter \cup {Append(q, x) : q \in shorter, x \in S}

NoFrame == [pc |-> "idle"]
NoCall == [fn |-> "none"]

----------------------------------------------------------------------------
(* The CheckIn table *)

\* a CheckIn row. checked_in_at, which no view or service reads, is left out.
CheckInRow(u, d, f, src) ==
    [user |-> u, local_date |-> d, status |-> f.status, mood |-> f.mood,
     note |-> f.note, tags |-> f.tags, hrv_rmssd |-> f.hrv_rmssd,
     source |-> src]

\* the fields a create leaves to the model's defaults
FieldDefaults ==
    [status |-> "ok", mood |-> None, note |-> "", tags |-> "", hrv_rmssd |-> None]

\* the rows of one user for one date
RowsFor(rows, u, d) == {r \in rows : r.user = u /\ r.local_date = d}

\* uniq_checkin_per_user_per_day: whether the table accepts the row
UniqueOk(rows, row) == RowsFor(rows, row.user, row.local_date) = {}

\* CheckInForm.clean_mood
clean_mood(m) == IsNone(m) \/ (1 <= TheValue(m) /\ TheValue(m) <= 5)

\* CheckInForm.clean_hrv_rmssd
clean_hrv_rmssd(v) == IsNone(v) \/ TheValue(v) > 0

\* CheckInForm.is_valid
is_valid(f) ==
    /\ f.status \in STATUS_CHOICES
    /\ clean_mood(f.mood)
    /\ clean_hrv_rmssd(f.hrv_rmssd)

Form(st, m, h) ==
    [status |-> st, mood |-> m, note |-> "", tags |-> "", hrv_rmssd |-> h]

\* the submissions tried on the check-in form: the last one is invalid
CheckInForms ==
    { Form("warn", Some(5), None), Form("ok", Some(1), None),
      Form("ok", Some(6), None) }

\* the field values tried on a direct create, which no form validates
DirectFields == { Form("ok", Some(3), None), Form("block", None, None) }

\* check_in_today: get_or_create for today with the fixed defaults
check_in_today(u) ==
    /\ checkins' =
         IF RowsFor(checkins, u, Today) # {}
         THEN checkins
         ELSE checkins \cup {CheckInRow(u, Today, FieldDefaults, "web")}
    /\ response' = [kind |-> "redirect", to |-> "/admin/checkins/checkin/"]
    /\ UNCHANGED <<hrv_readings, habit_anchors, now, call, frame>>

\* the update path of checkin_create: setattr of every form field, then save
UpdateRow(r, f) ==
    [r EXCEPT !.status = f.status, !.mood = f.mood, !.note = f.note,
              !.tags = f.tags, !.hrv_rmssd = f.hrv_rmssd]

\* checkin_create: a valid POST creates today's row or updates it; a GET or
\* an invalid POST renders the form
checkin_create(u, method, f) ==
    /\ IF method = "POST" /\ is_valid(f)
       THEN /\ checkins' =
                 IF RowsFor(checkins, u, Today) = {}
                 THEN checkins \cup {CheckInRow(u, Today, f, "web")}
                 ELSE (checkins \ RowsFor(checkins, u, Today))
                      \cup {UpdateRow(r, f) : r \in RowsFor(checkins, u, Today)}
            /\ response' = [kind |-> "redirect", to |-> "checkins:checkin_list"]
       ELSE /\ checkins' = checkins
            /\ response' = [kind |-> "form", template |-> "checkins/form.html"]
    /\ UNCHANGED <<hrv_readings, habit_anchors, now, call, frame>>

\* CheckIn.objects.create (tests, seed command, admin): the table's unique
\* constraint refuses a second row for the pair
checkin_objects_create(u, d, f, src) ==
    LET row == CheckInRow(u, d, f, src)
    IN  /\ IF UniqueOk(checkins, row)
           THEN /\ checkins' = checkins \cup {row}
                /\ response' = [kind |-> "created"]
           ELSE /\ checkins' = checkins
                /\ response' = [kind |-> "IntegrityError"]
        /\ UNCHANGED <<hrv_readings, habit_anchors, now, call, frame>>

\* the clock advances
Tick ==
    /\ now < MaxNow
    /\ now' = now + 1
    /\ response' = NoResponse
    /\ UNCHANGED <<checkins, hrv_readings, habit_anchors, call, frame>>

----------------------------------------------------------------------------
(* Dashboard helpers: streak, trend, smoothing, risk days *)

RECURSIVE StreakWalk(_, _, _)
\* the while loop of _compute_streak
StreakWalk(dates, d, streak) ==
    IF d \in dates THEN StreakWalk(dates, d - 1, streak + 1) ELSE streak

\* mutant of _compute_streak: the dates of every user's check-ins are walked
_compute_streak_any_user(rows, u, today) ==
    LET dates == {r.local_date : r \in rows}
    IN  IF dates = {} THEN 0 ELSE StreakWalk(dates, today, 0)

\* _compute_streak(user), with the table and today made explicit
_compute_streak(rows, u, today) ==
    LET dates == {r.local_date : r \in {x \in rows : x.user = u}}
    IN  IF dates = {} THEN 0 ELSE StreakWalk(dates, today, 0)

\* the status of a trend point for a day without a check-in
MISS == "miss"

\* mutant of _last_n_days: the window ends yesterday
_last_n_days_shifted(rows, u, today, n) ==
    LET qs == {r \in rows : /\ r.user = u
                            /\ r.local_date >= today - (n - 1)
                            /\ r.local_date <= today}
        by_date(d) == {r \in qs : r.local_date = d}
        point(d) ==
            IF by_date(d) = {}
            THEN [date |-> d, mood |-> None, status |-> MISS]
            ELSE LET c == CHOOSE r \in by_date(d) : TRUE
                 IN  [date |-> d, mood |-> c.mood, status |-> c.status]
    IN  [i \in 1 .. n |-> point(today - (n - i) - 1)]

\* mutant of _last_n_days: the query is not filtered by user
_last_n_days_any_user(rows, u, today, n) ==
    LET qs == {r \in rows : /\ r.local_date >= today - (n - 1)
                            /\ r.local_date <= today}
        by_date(d) == {r \in qs : r.local_date = d}
        point(d) ==
            IF by_date(d) = {}
            THEN [date |-> d, mood |-> None, status |-> MISS]
            ELSE LET c == CHOOSE r \in by_date(d) : TRUE
                 IN  [date |-> d, mood |-> c.mood, status |-> c.status]
    IN  [i \in 1 .. n |-> point(today - (n - i))]

\* _last_n_days(user, n), with the table and today made explicit
_last_n_days(rows, u, today, n) ==
    LET qs == {r \in rows : /\ r.user = u
                            /\ r.local_date >= today - (n - 1)
                            /\ r.local_date <= today}
        by_date(d) == {r \in qs : r.local_date = d}
        point(d) ==
            IF by_date(d) = {}
            THEN [date |-> d, mood |-> None, status |-> MISS]
            ELSE LET c == CHOOSE r \in by_date(d) : TRUE
                 IN  [date |-> d, mood |-> c.mood, status |-> c.status]
    IN  [i \in 1 .. n |-> point(today - (n - i))]

RECURSIVE SeqSum(_)
SeqSum(s) == IF s = <<>> THEN 0 ELSE Head(s) + SeqSum(Tail(s))

Max(a, b) == IF a >= b THEN a ELSE b

IsPresent(o) == o # {}

\* mutant of _smooth: the sum is divided by the window's length
_smooth_by_window_length(values, k) ==
    LET window(i) == SubSeq(values, Max(1, i - k + 1), i)
        present(i) == SelectSeq(window(i), IsPresent)
        total(i) == SeqSum([j \in 1 .. Len(present(i)) |-> TheValue(present(i)[j])])
    IN  [i \in 1 .. Len(values) |->
            IF present(i) = <<>> THEN None
            ELSE Some(Float(total(i), Len(window(i))))]

\* _smooth(values, k): values is a sequence of optional integers
_smooth(values, k) ==
    LET window(i) == SubSeq(values, Max(1, i - k + 1), i)
        present(i) == SelectSeq(window(i), IsPresent)
        total(i) == SeqSum([j \in 1 .. Len(present(i)) |-> TheValue(present(i)[j])])
    IN  [i \in 1 .. Len(values) |->
            IF present(i) = <<>> THEN None
            ELSE Some(Float(total(i), Len(present(i))))]

\* mutant of is_risk_day: the mood threshold is strict
is_risk_day_strict(point) ==
    \/ point.status \in {"warn", "block"}
    \/ (~IsNone(point.mood) /\ TheValue(point.mood) < 2)

\* the risk test of the dashboard's loop over the trend
is_risk_day(point) ==
    \/ point.status \in {"warn", "block"}
    \/ (~IsNone(point.mood) /\ TheValue(point.mood) <= 2)

\* a risk test that takes every status but "ok" for a risk
is_not_ok_day(point) ==
    \/ point.status # "ok"
    \/ (~IsNone(point.mood) /\ TheValue(point.mood) <= 2)

\* mutant of RiskDays: a day without a check-in counts as a risk day
RiskDaysNotOk(trend) == SelectSeq(trend, is_not_ok_day)

\* dashboard step 4: the trend points appended to risk_days, in trend order
RiskDays(trend) == SelectSeq(trend, is_risk_day)

----------------------------------------------------------------------------
(* The HRVReading table *)

\* an HRVReading row (sdnn_ms and notes are read by no computation)
HrvRow(u, at, f) ==
    [user |-> u, measured_at |-> at, rmssd_ms |-> f.rmssd_ms,
     resting_hr |-> f.resting_hr]

HrvForm(r, h) == [rmssd_ms |-> r, resting_hr |-> h]

\* HRVReadingForm.is_valid: rmssd_ms is any float or empty, resting_hr a
\* PositiveIntegerField (>= 0) or empty
hrv_is_valid(f) == IsNone(f.resting_hr) \/ TheValue(f.resting_hr) >= 0

\* the submissions tried on the HRV form: the last one is invalid
HrvForms ==
    { HrvForm(None, None), HrvForm(None, Some(58)), HrvForm(Some(65), Some(55)),
      HrvForm(Some(45), None), HrvForm(Some(20), Some(72)),
      HrvForm(Some(60), Some(0)), HrvForm(Some(45), Some(-1)) }

\* hrv_create_view: a valid POST stores a reading measured now
hrv_create_view(u, method, f) ==
    /\ IF method = "POST" /\ hrv_is_valid(f)
       THEN /\ hrv_readings' = hrv_readings \cup {HrvRow(u, now, f)}
            /\ response' = [kind |-> "redirect", to |-> "checkins:hrv-list"]
       ELSE /\ hrv_readings' = hrv_readings
            /\ response' = [kind |-> "form", template |-> "checkins/hrv_form.html"]
    /\ UNCHANGED <<checkins, habit_anchors, now, call, frame>>

\* queryset.order_by("-measured_at").first(): None for an empty queryset,
\* else a row of greatest measured_at (any of them when several tie)
FirstByMeasuredAtDesc(qs) ==
    IF qs = {} THEN {None}
    ELSE {Some(r) : r \in {x \in qs : \A y \in qs : y.measured_at <= x.measured_at}}

\* mutant of TodaysLatestHrv: the latest reading of any day
TodaysLatestHrvAnyDay(readings, u, today) ==
    FirstByMeasuredAtDesc({r \in readings : r.user = u})

\* dashboard step 5: the readings of the user measured today, latest first
TodaysLatestHrv(readings, u, today) ==
    FirstByMeasuredAtDesc(
        {r \in readings : r.user = u /\ LocalDate(r.measured_at) = today})

\* mutant of HrvFallback: today's reading without RMSSD is replaced too
HrvFallbackWhenNoRmssd(rows, u, today, latest) ==
    IF ~IsNone(latest) /\ ~IsNone(TheValue(latest).rmssd_ms) THEN latest
    ELSE LET qs == {c \in rows : /\ c.user = u
                                 /\ c.local_date = today
                                 /\ ~IsNone(c.hrv_rmssd)}
         IN  IF qs = {} THEN latest
             ELSE LET c == CHOOSE x \in qs : TRUE
                  IN  Some([rmssd_ms |-> c.hrv_rmssd, resting_hr |-> None,
                            measured_at |-> c.local_date])

\* dashboard step 5, fallback: today's check-in with an HRV value, as a
\* SimpleNamespace(rmssd_ms, resting_hr=None, measured_at=local_date)
HrvFallback(rows, u, today, latest) ==
    IF ~IsNone(latest) THEN latest
    ELSE LET qs == {c \in rows : /\ c.user = u
                                 /\ c.local_date = today
                                 /\ ~IsNone(c.hrv_rmssd)}
         IN  IF qs = {} THEN None
             ELSE LET c == CHOOSE x \in qs : TRUE
                  IN  Some([rmssd_ms |-> c.hrv_rmssd, resting_hr |-> None,
                            measured_at |-> c.local_date])

\* mutant of _classify_readiness: the two-factor version, where a resting
\* heart rate above 65 lowers a high RMSSD to moderate readiness
_classify_readiness_two_factor(latest_hrv) ==
    LET rmssd == IF IsNone(latest_hrv) THEN None ELSE TheValue(latest_hrv).rmssd_ms
        resting_hr == IF IsNone(latest_hrv) THEN None ELSE TheValue(latest_hrv).resting_hr
    IN  IF IsNone(rmssd)
        THEN [label |-> "No HRV data yet",
              description |-> "We don't have HRV data for today."]
        ELSE IF TheValue(rmssd) >= 60 /\ (IsNone(resting_hr) \/ TheValue(resting_hr) <= 65)
        THEN [label |-> "High readiness",
              description |-> "Your HRV suggests good recovery."]
        ELSE IF TheValue(rmssd) >= 40
        THEN [label |-> "Moderate readiness",
              description |-> "Your HRV is in a moderate range."]
        ELSE [label |-> "Low readiness",
              description |-> "Your current HRV pattern suggests higher load."]

\* _classify_readiness(latest_hrv): latest_hrv is an optional reading
_classify_readiness(latest_hrv) ==
    LET rmssd == IF IsNone(latest_hrv) THEN None ELSE TheValue(latest_hrv).rmssd_ms
    IN  IF IsNone(rmssd)
        THEN [label |-> "No HRV data yet",
              description |-> "We don't have HRV data for today."]
        ELSE IF TheValue(rmssd) >= 60
        THEN [label |-> "High readiness",
              description |-> "Your HRV suggests good recovery."]
        ELSE IF TheValue(rmssd) >= 40
        THEN [label |-> "Moderate readiness",
              description |-> "Your HRV is in a moderate range."]
        ELSE [label |-> "Low readiness",
              description |-> "Your current HRV pattern suggests higher load."]

\* _hrv_tip_from_last(latest_hrv): the text as its parts: the band of the
\* interpretation, the RMSSD shown, and the resting heart rate when the tip
\* mentions one
_hrv_tip_from_last(latest_hrv) ==
    IF IsNone(latest_hrv) \/ IsNone(TheValue(latest_hrv).rmssd_ms)
    THEN [band |-> "no data", rmssd |-> None, resting_hr |-> None]
    ELSE LET rmssd == TheValue(TheValue(latest_hrv).rmssd_ms)
             resting_hr == TheValue(latest_hrv).resting_hr
         IN  [band |-> IF rmssd >= 60 THEN "relatively high"
                       ELSE IF rmssd >= 40 THEN "moderate range"
                       ELSE "lower side",
              rmssd |-> Some(rmssd),
              resting_hr |-> IF ~IsNone(resting_hr) /\ TheValue(resting_hr) # 0
                             THEN resting_hr ELSE None]

----------------------------------------------------------------------------
(* The completion estimator (services/scoring.py)                          *)
(* A logit is an integer number of 1/10000; a probability and a value of   *)
(* exp are integer numbers of millionths. Every product stays below 2^31.  *)

LogitUnit == 10000
ONE == 1000000

\* the coefficients of the linear model, in 1/10000
b0 == -5000
b1 == 2500
b2 == 4000
b3 == 6000

\* the defaults of the physiological features
DEFAULT_RMSSD == 0
DEFAULT_RESTING_HR == 70

\* math.exp(-1), in millionths
ExpMinusOne == 367879
\* math.exp(y) overflows a double for y above 709.78, in 1/10000
ExpOverflowAt == 7097827
\* the terms of the exponential series summed
ExpTerms == 12

\* a * b / ONE for 0 <= a, b <= ONE
MulPpm(a, b) ==
    LET ah == a \div 1000
        al == a % 1000
        bh == b \div 1000
        bl == b % 1000
    IN  ah * bh + (ah * bl + al * bh) \div 1000 + (al * bl) \div ONE

\* t * f / (LogitUnit * k) for 0 <= t <= ONE and 0 <= f < LogitUnit
NextTerm(t, f, k) ==
    ((t \div 1000) * f * 100 + ((t % 1000) * f) \div 10) \div (1000 * k)

RECURSIVE ExpSeries(_, _, _, _)
\* sum of (-f)^j / j! for j >= k, given the k-th term's size t
ExpSeries(f, k, t, sign) ==
    IF k > ExpTerms \/ t = 0 THEN 0
    ELSE sign * t + ExpSeries(f, k + 1, NextTerm(t, f, k + 1), 0 - sign)

RECURSIVE ExpMinusInt(_)
\* exp(-i) for a whole number i >= 0
ExpMinusInt(i) == IF i = 0 THEN ONE ELSE MulPpm(ExpMinusInt(i - 1), ExpMinusOne)

\* math.exp(-t) for t >= 0
ExpNeg(t) ==
    IF t >= 20 * LogitUnit THEN 0
    ELSE MulPpm(ExpMinusInt(t \div LogitUnit), ExpSeries(t % LogitUnit, 0, ONE, 1))

\* num / den in millionths, for 0 <= num <= den <= 2 * ONE
DivPpm(num, den) ==
    LET q1 == (num * 1000) \div den
        r1 == (num * 1000) % den
    IN  q1 * 1000 + (r1 * 1000) \div den

\* mutant of _sigmoid: the OverflowError handler has its two results swapped
_sigmoid_swapped_handler(x) ==
    IF 0 - x > ExpOverflowAt
    THEN (IF x < 0 THEN ONE ELSE 0)
    ELSE IF x >= 0
    THEN DivPpm(ONE, ONE + ExpNeg(x))
    ELSE DivPpm(ExpNeg(0 - x), ONE + ExpNeg(0 - x))

\* _sigmoid(x): 1 / (1 + exp(-x)), and for an exp that overflows 0.0 for a
\* negative x and 1.0 otherwise. For x < 0 the quotient is taken as
\* exp(x) / (exp(x) + 1), the same number.
_sigmoid(x) ==
    IF 0 - x > ExpOverflowAt
    THEN (IF x < 0 THEN 0 ELSE ONE)
    ELSE IF x >= 0
    THEN DivPpm(ONE, ONE + ExpNeg(x))
    ELSE DivPpm(ExpNeg(0 - x), ONE + ExpNeg(0 - x))

\* mutant of Logit: the resting heart rate is not centred at 60
LogitUncentred(n_recent, rmssd, resting_hr) ==
    b0 + b1 * n_recent + (b2 * rmssd) \div 100
       + (b3 * (0 - resting_hr)) \div 100

\* the linear model of predict_habit_completion_probability
Logit(n_recent, rmssd, resting_hr) ==
    b0 + b1 * n_recent + (b2 * rmssd) \div 100
       + (b3 * (0 - (resting_hr - 60))) \div 100

\* round(x / unit) to the nearest whole number, for x >= 0
RoundDiv(x, unit) == (x + unit \div 2) \div unit

\* mutant of predict_habit_completion_probability: the resting heart rate
\* is guarded by the reading's RMSSD
predict_guarded_by_rmssd(rows, u, t, latest_hrv) ==
    LET week_ago == t - 7 * SlotsPerDay
        recent_checkins ==
            {c \in rows : c.user = u /\ c.local_date >= LocalDate(week_ago)}
        n_recent == Cardinality(recent_checkins)
        has_rmssd ==
            /\ ~IsNone(latest_hrv)
            /\ ~IsNone(TheValue(latest_hrv).rmssd_ms)
            /\ TheValue(TheValue(latest_hrv).rmssd_ms) # 0
        rmssd ==
            IF has_rmssd
            THEN TheValue(TheValue(latest_hrv).rmssd_ms) ELSE DEFAULT_RMSSD
        resting_hr ==
            IF has_rmssd /\ ~IsNone(TheValue(latest_hrv).resting_hr)
            THEN TheValue(TheValue(latest_hrv).resting_hr) ELSE DEFAULT_RESTING_HR
        logit == Logit(n_recent, rmssd, resting_hr)
    IN  [n_recent |-> n_recent, rmssd |-> rmssd, resting_hr |-> resting_hr,
         logit |-> logit, prob |-> _sigmoid(logit)]

\* predict_habit_completion_probability(user), given the reading that
\* order_by("-measured_at").first() returned; the probability in millionths
predict_habit_completion_probability(rows, u, t, latest_hrv) ==
    LET week_ago == t - 7 * SlotsPerDay
        recent_checkins ==
            {c \in rows : c.user = u /\ c.local_date >= LocalDate(week_ago)}
        n_recent == Cardinality(recent_checkins)
        rmssd ==
            IF /\ ~IsNone(latest_hrv)
               /\ ~IsNone(TheValue(latest_hrv).rmssd_ms)
               /\ TheValue(TheValue(latest_hrv).rmssd_ms) # 0
            THEN TheValue(TheValue(latest_hrv).rmssd_ms) ELSE DEFAULT_RMSSD
        resting_hr ==
            IF /\ ~IsNone(latest_hrv)
               /\ ~IsNone(TheValue(latest_hrv).resting_hr)
               /\ TheValue(TheValue(latest_hrv).resting_hr) # 0
            THEN TheValue(TheValue(latest_hrv).resting_hr) ELSE DEFAULT_RESTING_HR
        logit == Logit(n_recent, rmssd, resting_hr)
    IN  [n_recent |-> n_recent, rmssd |-> rmssd, resting_hr |-> resting_hr,
         logit |-> logit, prob |-> _sigmoid(logit)]

\* mutant of CompletionDisplay: the band limits 0.33 and 0.67 are inclusive
CompletionDisplayInclusiveLimits(completion_probability) ==
    IF IsNone(completion_probability)
    THEN [completion_prob |-> 0, completion_explanation |-> [band |-> "fallback"]]
    ELSE LET p == TheValue(completion_probability)
         IN  [completion_prob |-> RoundDiv(p, 1000),
              completion_explanation |->
                  IF 0 <= p /\ p <= ONE
                  THEN [band |-> IF p <= 330000 THEN "challenging"
                                 ELSE IF p <= 670000 THEN "moderate"
                                 ELSE "favorable",
                        completion_percent |-> RoundDiv(p, 10000)]
                  ELSE [band |-> "fallback"]]

\* mutant of CompletionDisplay: a missing probability is taken as 0.0
CompletionDisplayNoneAsZero(completion_probability) ==
    LET p == IF IsNone(completion_probability) THEN 0
             ELSE TheValue(completion_probability)
    IN  [completion_prob |-> RoundDiv(p, 1000),
         completion_explanation |->
             IF 0 <= p /\ p <= ONE
             THEN [band |-> IF p < 330000 THEN "challenging"
                            ELSE IF p < 670000 THEN "moderate"
                            ELSE "favorable",
                   completion_percent |-> RoundDiv(p, 10000)]
             ELSE [band |-> "fallback"]]

\* dashboard step 6: the displayed percentage (in tenths of a percent) and
\* the explanation, from the optional probability
CompletionDisplay(completion_probability) ==
    IF IsNone(completion_probability)
    THEN [completion_prob |-> 0, completion_explanation |-> [band |-> "fallback"]]
    ELSE LET p == TheValue(completion_probability)
         IN  [completion_prob |-> RoundDiv(p, 1000),
              completion_explanation |->
                  IF 0 <= p /\ p <= ONE
                  THEN [band |-> IF p < 330000 THEN "challenging"
                                 ELSE IF p < 670000 THEN "moderate"
                                 ELSE "favorable",
                        completion_percent |-> RoundDiv(p, 10000)]
                  ELSE [band |-> "fallback"]]

\* _tiny_prompt_from_last(out)
_tiny_prompt_from_last(out) ==
    LET last3 == SubSeq(out, Max(1, Len(out) - 2), Len(out))
        risky == \E i \in 1 .. Len(last3) :
                    \/ last3[i].status \in {"warn", "block"}
                    \/ /\ ~IsNone(last3[i].mood)
                       /\ TheValue(last3[i].mood) # 0
                       /\ TheValue(last3[i].mood) <= 2
    IN  IF risky THEN "After getting up in the morning: take one deep breath + one sip of water."
        ELSE "After breakfast: 10-second shoulder stretch."

\* the context the dashboard view renders, given the rows its two
\* order_by("-measured_at").first() queries returned
DashboardContext(rows, readings, u, t, todays_first, overall_first) ==
    LET today == LocalDate(t)
        streak_days == _compute_streak(rows, u, today)
        raw_trend == _last_n_days(rows, u, today, 7)
        raw_moods == [i \in 1 .. Len(raw_trend) |->
                        IF IsNone(raw_trend[i].mood) THEN None
                        ELSE raw_trend[i].mood]
        smoothed_moods == _smooth(raw_moods, 3)
        trend == [i \in 1 .. Len(raw_trend) |->
                    [date |-> raw_trend[i].date, mood |-> raw_trend[i].mood,
                     status |-> raw_trend[i].status,
                     mood_smooth |-> smoothed_moods[i]]]
        risk_days == RiskDays(trend)
        latest_hrv == HrvFallback(rows, u, today, todays_first)
        prediction == predict_habit_completion_probability(rows, u, t, overall_first)
        display == CompletionDisplay(Some(prediction.prob))
    IN  [kind |-> "dashboard",
         user |-> u,
         streak |-> [days |-> streak_days],
         trend |-> trend,
         risk_count |-> Len(risk_days),
         risk_days |-> risk_days,
         readiness |-> _classify_readiness(latest_hrv),
         completion_prob |-> display.completion_prob,
         completion_explanation |-> display.completion_explanation,
         tiny_prompt |-> _tiny_prompt_from_last(trend),
         hrv_tip |-> _hrv_tip_from_last(latest_hrv),
         \* locals of the view, kept for the properties below
         latest_hrv |-> latest_hrv,
         prediction |-> prediction]

\* dashboard: a GET of the logged-in user
dashboard(u) ==
    /\ \E todays_first \in TodaysLatestHrv(hrv_readings, u, Today) :
       \E overall_first \in FirstByMeasuredAtDesc({r \in hrv_readings : r.user = u}) :
          response' = DashboardContext(checkins, hrv_readings, u, now,
                                       todays_first, overall_first)
    /\ UNCHANGED <<checkins, hrv_readings, habit_anchors, now, call, frame>>

\* a direct call of _last_n_days(user, n)
last_n_days_call(u, n) ==
    /\ response' = [kind |-> "_last_n_days", user |-> u, n |-> n,
                    out |-> _last_n_days(checkins, u, Today, n)]
    /\ UNCHANGED <<checkins, hrv_readings, habit_anchors, now, call, frame>>

----------------------------------------------------------------------------
(* The store: check-ins, the clock and the dashboard *)

Init ==
    /\ checkins = {}
    /\ hrv_readings = {}
    /\ habit_anchors = {}
    /\ now = 0
    /\ call = NoCall
    /\ response = NoResponse
    /\ frame = NoFrame

Next ==
    \/ Tick
    \/ \E u \in Users : Cardinality(checkins) < MaxCheckIns /\ check_in_today(u)
    \/ \E u \in Users, f \in CheckInForms :
          /\ Cardinality(checkins) < MaxCheckIns \/ RowsFor(checkins, u, Today) # {}
          /\ checkin_create(u, "POST", f)
    \/ \E u \in Users : checkin_create(u, "GET", FieldDefaults)
    \/ \E u \in Users, d \in DirectDates, f \in DirectFields :
          /\ Cardinality(checkins) < MaxCheckIns
          /\ checkin_objects_create(u, d, f, "web")
    \/ \E u \in Users : dashboard(u)
    \/ \E u \in Users, n \in 1 .. MaxN : last_n_days_call(u, n)

Spec == Init /\ [][Next]_vars

----------------------------------------------------------------------------
(* The store: HRV readings, check-ins that carry an HRV value, the clock   *)
(* and the dashboard                                                       *)

\* the submissions tried on the check-in form where HRV matters
HrvCheckInForms == { Form("ok", None, Some(50)), Form("ok", Some(4), None) }

NextHrv ==
    \/ Tick
    \/ \E u \in Users, f \in HrvForms :
          /\ Cardinality(hrv_readings) < MaxReadings
          /\ hrv_create_view(u, "POST", f)
    \/ \E u \in Users : hrv_create_view(u, "GET", HrvForm(None, None))
    \/ \E u \in Users, f \in HrvCheckInForms :
          /\ Cardinality(checkins) < MaxHrvCheckIns \/ RowsFor(checkins, u, Today) # {}
          /\ checkin_create(u, "POST", f)
    \/ \E u \in Users : dashboard(u)

SpecHrv == Init /\ [][NextHrv]_vars

----------------------------------------------------------------------------
(* Python floats (IEEE 754 doubles) as analytics/utils.py uses them: the   *)
(* quotient of two integers, the difference of two quotients, abs and >=.  *)
(* A non-negative double is 0.0 or a mantissa m of MantissaBits bits, the  *)
(* first one set, and the exponent e of its last bit: the value m * 2^e.   *)

MantissaBits == 53

FZero == [e |-> 0, m |-> <<>>]

Zeros(n) == [i \in 1 .. n |-> 0]

Min(a, b) == IF a <= b THEN a ELSE b

\* the bits plus one, and the carry out of the first bit
Incr(b) ==
    IF \A i \in 1 .. Len(b) : b[i] = 1
    THEN [bits |-> Zeros(Len(b)), carry |-> 1]
    ELSE LET last0 == CHOOSE i \in 1 .. Len(b) :
                         b[i] = 0 /\ \A j \in i + 1 .. Len(b) : b[j] = 1
         IN  [bits |-> [i \in 1 .. Len(b) |->
                          IF i < last0 THEN b[i] ELSE IF i = last0 THEN 1 ELSE 0],
              carry |-> 0]

\* round to nearest, ties to even: the kept bits, rounded up or not
Rounded(keep, e, up) ==
    IF ~up THEN [e |-> e, m |-> keep]
    ELSE LET r == Incr(keep)
         IN  IF r.carry = 0 THEN [e |-> e, m |-> r.bits]
             ELSE [e |-> e + 1, m |-> <<1>> \o Zeros(Len(keep) - 1)]

RECURSIVE Pow2(_)
Pow2(k) == IF k = 0 THEN 1 ELSE 2 * Pow2(k - 1)

\* the n bits of v < 2^n, the first one the highest
Bits(v, n) == [i \in 1 .. n |-> (v \div Pow2(n - i)) % 2]

RECURSIVE DivBits(_, _, _)
\* the next n bits of the quotient, from the remainder r < d; long
\* division, up to 13 bits at a time
DivBits(r, d, n) ==
    IF n = 0 THEN <<>>
    ELSE LET c == Min(n, 13)
         IN  Bits((r * Pow2(c)) \div d, c) \o DivBits((r * Pow2(c)) % d, d, n - c)

RECURSIVE DivRem(_, _, _)
\* the remainder left after those n bits
DivRem(r, d, n) ==
    IF n = 0 THEN r
    ELSE DivRem((r * Pow2(Min(n, 13))) % d, d, n - Min(n, 13))

RECURSIVE Log2Floor(_, _)
\* the k with d * 2^k <= n < d * 2^(k+1), for n, d > 0
Log2Floor(n, d) ==
    IF n < d THEN Log2Floor(2 * n, d) - 1
    ELSE IF n >= 2 * d THEN Log2Floor(n, 2 * d) + 1
    ELSE 0

\* s / t for integers s >= 0 and t > 0, correctly rounded
FDiv(s, t) ==
    IF s = 0 THEN FZero
    ELSE LET k == Log2Floor(s, t)
             n == IF k < 0 THEN s * Pow2(0 - k) ELSE s
             d == IF k > 0 THEN t * Pow2(k) ELSE t
             bits == <<1>> \o DivBits(n - d, d, MantissaBits - 1)
             rem == DivRem(n - d, d, MantissaBits - 1)
             up == 2 * rem > d \/ (2 * rem = d /\ bits[MantissaBits] = 1)
         IN  Rounded(bits, k - (MantissaBits - 1), up)

\* whether x >= y, for two bit strings of one length
LexGe(x, y) ==
    \/ x = y
    \/ \E i \in 1 .. Len(x) :
          /\ x[i] > y[i]
          /\ \A j \in 1 .. i - 1 : x[j] = y[j]

\* x - y for x >= y of one length: bit i borrows when the bits after it
\* make a smaller number in x than in y
SubBits(x, y) ==
    LET n == Len(x)
        borrow(i) ==
            IF \E j \in i + 1 .. n :
                  /\ x[j] < y[j]
                  /\ \A k \in i + 1 .. j - 1 : x[k] = y[k]
            THEN 1 ELSE 0
    IN  [i \in 1 .. n |-> (x[i] - y[i] - borrow(i) + 2) % 2]

\* the bits from the first 1 on
StripZeros(b) ==
    IF \A i \in 1 .. Len(b) : b[i] = 0 THEN <<>>
    ELSE LET first == CHOOSE i \in 1 .. Len(b) :
                         b[i] = 1 /\ \A j \in 1 .. i - 1 : b[j] = 0
         IN  SubSeq(b, first, Len(b))

\* the double nearest to the exact value bits * 2^e, bits starting with a 1
FRound(bits, e) ==
    LET n == Len(bits)
    IN  IF n <= MantissaBits
        THEN [e |-> e - (MantissaBits - n), m |-> bits \o Zeros(MantissaBits - n)]
        ELSE LET keep == SubSeq(bits, 1, MantissaBits)
                 rest == SubSeq(bits, MantissaBits + 1, n)
                 below == \E i \in 2 .. Len(rest) : rest[i] = 1
                 up == rest[1] = 1 /\ (below \/ keep[MantissaBits] = 1)
             IN  Rounded(keep, e + (n - MantissaBits), up)

\* abs(x - y) for two non-negative doubles, correctly rounded
FAbsDiff(x, y) ==
    IF x = FZero THEN y
    ELSE IF y = FZero THEN x
    ELSE LET e == Min(x.e, y.e)
             xs == x.m \o Zeros(x.e - e)
             ys == y.m \o Zeros(y.e - e)
             n == Max(Len(xs), Len(ys))
             xp == Zeros(n - Len(xs)) \o xs
             yp == Zeros(n - Len(ys)) \o ys
             d == IF LexGe(xp, yp) THEN SubBits(xp, yp) ELSE SubBits(yp, xp)
             bits == StripZeros(d)
         IN  IF bits = <<>> THEN FZero ELSE FRound(bits, e)

\* x >= y for two non-negative doubles
FGe(x, y) ==
    IF y = FZero THEN TRUE
    ELSE IF x = FZero THEN FALSE
    ELSE IF x.e # y.e THEN x.e > y.e
    ELSE LexGe(x.m, y.m)

----------------------------------------------------------------------------
(* analytics/utils.py: permutation_test, one step per loop iteration       *)

\* [v] * n: the empty list for n <= 0
Rep(v, n) == [i \in 1 .. Max(n, 0) |-> v]

\* the lists random.shuffle can leave in place of pooled
Shuffles(pooled) ==
    {q \in [1 .. Len(pooled) -> {0, 1}] : SeqSum(q) = SeqSum(pooled)}

\* pooled[:n] and pooled[n:]
SliceTo(pooled, n) == SubSeq(pooled, 1, Min(Max(n, 0), Len(pooled)))
SliceFrom(pooled, n) == SubSeq(pooled, Min(Max(n, 0), Len(pooled)) + 1, Len(pooled))

\* abs((success_a / total_a) - (success_b / total_b)), as a double
AbsProportionDiff(success_a, total_a, success_b, total_b) ==
    FAbsDiff(FDiv(success_a, total_a), FDiv(success_b, total_b))

\* the arguments tried on permutation_test
PermutationCalls ==
    {[fn |-> "permutation_test", success_a |-> sa, total_a |-> ta,
      success_b |-> sb, total_b |-> tb, iters |-> n] :
        sa \in 0 .. MaxTotal, ta \in -1 .. MaxTotal,
        sb \in 0 .. MaxTotal, tb \in -1 .. MaxTotal, n \in 0 .. MaxIters}

\* mutant of permutation_test_enter: the degenerate case returns 0.0
permutation_test_enter_returns_zero ==
    /\ call.fn = "permutation_test"
    /\ frame = NoFrame
    /\ IF call.total_a <= 0 \/ call.total_b <= 0
       THEN /\ frame' = [pc |-> "done", i |-> 0]
            /\ response' = [kind |-> "permutation_test", raised |-> "",
                            out |-> Float(0, 1)]
       ELSE /\ frame' =
                 [pc |-> "loop", i |-> 0, count |-> 0,
                  abs_p_obs |-> AbsProportionDiff(call.success_a, call.total_a,
                                                  call.success_b, call.total_b),
                  pooled |-> Rep(1, call.success_a)
                             \o Rep(0, call.total_a - call.success_a)
                             \o Rep(1, call.success_b)
                             \o Rep(0, call.total_b - call.success_b),
                  a_slice |-> <<>>, b_slice |-> <<>>]
            /\ response' = response
    /\ UNCHANGED <<checkins, hrv_readings, habit_anchors, now, call>>

\* lines 28-43: the guard on the totals, p_obs, pooled, count = 0
permutation_test_enter ==
    /\ call.fn = "permutation_test"
    /\ frame = NoFrame
    /\ IF call.total_a <= 0 \/ call.total_b <= 0
       THEN /\ frame' = [pc |-> "done", i |-> 0]
            /\ response' = [kind |-> "permutation_test", raised |-> "",
                            out |-> Float(1, 1)]
       ELSE /\ frame' =
                 [pc |-> "loop", i |-> 0, count |-> 0,
                  abs_p_obs |-> AbsProportionDiff(call.success_a, call.total_a,
                                                  call.success_b, call.total_b),
                  pooled |-> Rep(1, call.success_a)
                             \o Rep(0, call.total_a - call.success_a)
                             \o Rep(1, call.success_b)
                             \o Rep(0, call.total_b - call.success_b),
                  a_slice |-> <<>>, b_slice |-> <<>>]
            /\ response' = response
    /\ UNCHANGED <<checkins, hrv_readings, habit_anchors, now, call>>

\* mutant of permutation_test_iterate: only strictly more extreme
\* permutations are counted
permutation_test_iterate_strict ==
    /\ frame.pc = "loop"
    /\ frame.i < call.iters
    /\ \E pooled \in Shuffles(frame.pooled) :
          LET a_slice == SliceTo(pooled, call.total_a)
              b_slice == SliceFrom(pooled, call.total_a)
              abs_p_diff == AbsProportionDiff(SeqSum(a_slice), call.total_a,
                                              SeqSum(b_slice), call.total_b)
          IN  frame' = [frame EXCEPT
                          !.i = @ + 1,
                          !.pooled = pooled,
                          !.a_slice = a_slice,
                          !.b_slice = b_slice,
                          !.count = IF ~FGe(frame.abs_p_obs, abs_p_diff)
                                    THEN @ + 1 ELSE @]
    /\ UNCHANGED <<checkins, hrv_readings, habit_anchors, now, call, response>>

\* lines 44-53: one iteration: shuffle, slice, compare, count
permutation_test_iterate ==
    /\ frame.pc = "loop"
    /\ frame.i < call.iters
    /\ \E pooled \in Shuffles(frame.pooled) :
          LET a_slice == SliceTo(pooled, call.total_a)
              b_slice == SliceFrom(pooled, call.total_a)
              abs_p_diff == AbsProportionDiff(SeqSum(a_slice), call.total_a,
                                              SeqSum(b_slice), call.total_b)
          IN  frame' = [frame EXCEPT
                          !.i = @ + 1,
                          !.pooled = pooled,
                          !.a_slice = a_slice,
                          !.b_slice = b_slice,
                          !.count = IF FGe(abs_p_diff, frame.abs_p_obs)
                                    THEN @ + 1 ELSE @]
    /\ UNCHANGED <<checkins, hrv_readings, habit_anchors, now, call, response>>

\* line 56: count / iters, a ZeroDivisionError for iters = 0
permutation_test_return ==
    /\ frame.pc = "loop"
    /\ frame.i >= call.iters
    /\ frame' = [frame EXCEPT !.pc = "done"]
    /\ response' =
          IF call.iters = 0
          THEN [kind |-> "permutation_test", raised |-> "ZeroDivisionError"]
          ELSE [kind |-> "permutation_test", raised |-> "",
                out |-> Float(frame.count, call.iters)]
    /\ UNCHANGED <<checkins, hrv_readings, habit_anchors, now, call>>

----------------------------------------------------------------------------
(* analytics/utils.py: quick_vif. A correlation, a proxy R^2 and a VIF are *)
(* integer numbers of millionths.                                          *)

Abs(x) == IF x < 0 THEN 0 - x ELSE x

RECURSIVE SqrtSearch(_, _, _)
\* the largest y in lo .. hi with y * y / ONE <= x, given that lo is one
SqrtSearch(x, lo, hi) ==
    IF lo >= hi THEN lo
    ELSE LET mid == (lo + hi + 1) \div 2
         IN  IF MulPpm(mid, mid) <= x THEN SqrtSearch(x, mid, hi)
             ELSE SqrtSearch(x, lo, mid - 1)

\* math.sqrt of a number in [0, 1]
SqrtPpm(x) == SqrtSearch(x, 0, ONE)

\* lines 96-102: the z-scores (x - m) / sd of a column, kept as the
\* integers len * (x - m): the positive factor 1 / (len * sd) cancels in
\* pearson, and a column of variance 0 (sd = 1.0) is all zeros either way
ZScores(col) == [i \in 1 .. Len(col) |-> Len(col) * col[i] - SeqSum(col)]

\* lines 110-116: abs(pearson(a, b)) for two z-scored columns, whose means
\* are 0; zip stops at the shorter one, da and db run over the whole column
AbsPearson(a, b) ==
    LET n == Min(Len(a), Len(b))
        num == SeqSum([i \in 1 .. n |-> a[i] * b[i]])
        da2 == SeqSum([i \in 1 .. Len(a) |-> a[i] * a[i]])
        db2 == SeqSum([i \in 1 .. Len(b) |-> b[i] * b[i]])
    IN  IF da2 > 0 /\ db2 > 0
        THEN SqrtPpm(DivPpm(num * num, da2 * db2))
        ELSE 0

\* 1.0 / (1.0 - r2) for r2 <= 0.99
VifOf(r2) ==
    LET d == ONE - r2
        r == ONE % d
    IN  (ONE \div d) * ONE + ((r * 1000) \div d) * 1000
          + (((r * 1000) % d) * 1000) \div d

\* mutant of quick_vif: the trivial case returns [1.0] whatever n_cols is
quick_vif_trivial_single(columns) ==
    LET n_cols == Len(columns)
        zcols == [i \in 1 .. n_cols |-> ZScores(columns[i])]
        vif(i) ==
            LET others == SelectSeq([j \in 1 .. n_cols |-> j], LAMBDA j : j # i)
                avg_abs_corr ==
                    SeqSum([k \in 1 .. Len(others) |->
                               AbsPearson(zcols[i], zcols[others[k]])])
                      \div Len(others)
                r2 == Min(990000, Max(0, MulPpm(avg_abs_corr, avg_abs_corr)))
            IN  VifOf(r2)
    IN  IF n_cols <= 1 THEN <<ONE>>
        ELSE [i \in 1 .. n_cols |-> vif(i)]

\* mutant of quick_vif: the proxy R^2 is bounded by 0.999 instead of 0.99
quick_vif_loose_clamp(columns) ==
    LET n_cols == Len(columns)
        zcols == [i \in 1 .. n_cols |-> ZScores(columns[i])]
        vif(i) ==
            LET others == SelectSeq([j \in 1 .. n_cols |-> j], LAMBDA j : j # i)
                avg_abs_corr ==
                    SeqSum([k \in 1 .. Len(others) |->
                               AbsPearson(zcols[i], zcols[others[k]])])
                      \div Len(others)
                r2 == Min(999000, Max(0, MulPpm(avg_abs_corr, avg_abs_corr)))
            IN  VifOf(r2)
    IN  IF n_cols <= 1 THEN Rep(ONE, n_cols)
        ELSE [i \in 1 .. n_cols |-> vif(i)]

\* quick_vif(columns)
quick_vif(columns) ==
    LET n_cols == Len(columns)
        zcols == [i \in 1 .. n_cols |-> ZScores(columns[i])]
        vif(i) ==
            LET others == SelectSeq([j \in 1 .. n_cols |-> j], LAMBDA j : j # i)
                avg_abs_corr ==
                    SeqSum([k \in 1 .. Len(others) |->
                               AbsPearson(zcols[i], zcols[others[k]])])
                      \div Len(others)
                r2 == Min(990000, Max(0, MulPpm(avg_abs_corr, avg_abs_corr)))
            IN  VifOf(r2)
    IN  IF n_cols <= 1 THEN Rep(ONE, n_cols)
        ELSE [i \in 1 .. n_cols |-> vif(i)]

\* the columns tried on quick_vif
VifColumns == SeqsUpTo(0 .. MaxColValue, MaxColLen)

VifCalls ==
    {[fn |-> "quick_vif", columns |-> c] : c \in SeqsUpTo(VifColumns, MaxCols)}

quick_vif_call ==
    /\ call.fn = "quick_vif"
    /\ frame = NoFrame
    /\ frame' = [pc |-> "done", i |-> 0]
    /\ response' = [kind |-> "quick_vif", out |-> quick_vif(call.columns)]
    /\ UNCHANGED <<checkins, hrv_readings, habit_anchors, now, call>>

InitAnalytics ==
    /\ checkins = {}
    /\ hrv_readings = {}
    /\ habit_anchors = {}
    /\ now = 0
    /\ call \in PermutationCalls \cup VifCalls
    /\ response = NoResponse
    /\ frame = NoFrame

NextAnalytics ==
    \/ permutation_test_enter
    \/ permutation_test_iterate
    \/ permutation_test_return
    \/ quick_vif_call

SpecAnalytics == InitAnalytics /\ [][NextAnalytics]_vars

----------------------------------------------------------------------------
(* The store with a history of check-ins: rows dated up to MaxBack days    *)
(* before the first day, and the dashboard. One user at a time has more    *)
(* than MaxOtherRows rows.                                                 *)

RecentDates == (0 - MaxBack) .. LocalDate(MaxNow)

RowsOf(u) == {c \in checkins : c.user = u}

NextRecent ==
    \/ \E u \in Users, d \in RecentDates :
          /\ \/ Cardinality(RowsOf(u)) < MaxOtherRows
             \/ \A v \in Users \ {u} : Cardinality(RowsOf(v)) <= MaxOtherRows
          /\ checkin_objects_create(u, d, FieldDefaults, "web")
    \/ \E u \in Users : dashboard(u)

SpecRecent == Init /\ [][NextRecent]_vars

----------------------------------------------------------------------------
(* Direct calls of the pure helpers, the arguments drawn from bounded sets *)

SmoothValues == {None, Some(2), Some(4), Some(6)}
RmssdValues == {None, Some(0), Some(20), Some(39), Some(40), Some(45),
                Some(59), Some(60), Some(65)}
RestingHrValues == {None, Some(0), Some(55), Some(70)}
MoodValues == {None} \cup {Some(m) : m \in 0 .. 5}
\* the trend points tried on _tiny_prompt_from_last
PromptPoints ==
    {[status |-> "ok", mood |-> m] : m \in {None, Some(0), Some(2), Some(3)}}
    \cup {[status |-> "warn", mood |-> Some(5)], [status |-> MISS, mood |-> None]}
\* results of the estimator on both sides of the band limits, and none
DisplayProbs == {None} \cup {Some(p) : p \in {0, 1, 329999, 330000, 330001,
                     500000, 669999, 670000, 670001, 999999, ONE}}
\* logits on both sides of the overflow of math.exp, in 1/10000
SigmoidLogits == {-8000000, -7097828, -7097827, -200000, -5600, 0,
                  5600, 200000, 7097828, 8000000}

HelperCalls ==
    {[fn |-> "_smooth", values |-> v, k |-> k] :
        v \in SeqsUpTo(SmoothValues, MaxLen), k \in 1 .. MaxK}
    \cup {[fn |-> "_classify_readiness", latest_hrv |-> None]}
    \cup {[fn |-> "_classify_readiness",
           latest_hrv |-> Some([rmssd_ms |-> r, resting_hr |-> h])] :
             r \in RmssdValues, h \in RestingHrValues}
    \cup {[fn |-> "_hrv_tip_from_last", latest_hrv |-> None]}
    \cup {[fn |-> "_hrv_tip_from_last",
           latest_hrv |-> Some([rmssd_ms |-> r, resting_hr |-> h])] :
             r \in RmssdValues, h \in RestingHrValues}
    \cup {[fn |-> "_tiny_prompt_from_last", out |-> q] :
             q \in SeqsUpTo(PromptPoints, MaxLen)}
    \cup {[fn |-> "is_risk_day", point |-> [status |-> st, mood |-> m]] :
             st \in STATUS_CHOICES \cup {MISS}, m \in MoodValues}
    \cup {[fn |-> "score", n_recent |-> n, rmssd |-> r, resting_hr |-> h] :
             n \in 0 .. MaxRecent, r \in {0, 45, 65}, h \in {55, 70, 90}}
    \cup {[fn |-> "_sigmoid", x |-> x] : x \in SigmoidLogits}
    \cup {[fn |-> "display", completion_probability |-> p] : p \in DisplayProbs}

InitHelpers ==
    /\ checkins = {}
    /\ hrv_readings = {}
    /\ habit_anchors = {}
    /\ now = 0
    /\ call \in HelperCalls
    /\ response = NoResponse
    /\ frame = NoFrame

smooth_call ==
    /\ call.fn = "_smooth"
    /\ response' = [kind |-> "_smooth", out |-> _smooth(call.values, call.k)]
    /\ UNCHANGED <<checkins, hrv_readings, habit_anchors, now, call, frame>>

classify_readiness_call ==
    /\ call.fn = "_classify_readiness"
    /\ response' = [kind |-> "_classify_readiness",
                    out |-> _classify_readiness(call.latest_hrv)]
    /\ UNCHANGED <<checkins, hrv_readings, habit_anchors, now, call, frame>>

hrv_tip_call ==
    /\ call.fn = "_hrv_tip_from_last"
    /\ response' = [kind |-> "_hrv_tip_from_last",
                    out |-> _hrv_tip_from_last(call.latest_hrv)]
    /\ UNCHANGED <<checkins, hrv_readings, habit_anchors, now, call, frame>>

tiny_prompt_call ==
    /\ call.fn = "_tiny_prompt_from_last"
    /\ response' = [kind |-> "_tiny_prompt_from_last",
                    out |-> _tiny_prompt_from_last(call.out)]
    /\ UNCHANGED <<checkins, hrv_readings, habit_anchors, now, call, frame>>

risk_day_call ==
    /\ call.fn = "is_risk_day"
    /\ response' = [kind |-> "is_risk_day", out |-> is_risk_day(call.point)]
    /\ UNCHANGED <<checkins, hrv_readings, habit_anchors, now, call, frame>>

\* the linear model, the sigmoid and the displayed percentage, on given features
score_call ==
    /\ call.fn = "score"
    /\ LET logit == Logit(call.n_recent, call.rmssd, call.resting_hr)
           prob == _sigmoid(logit)
       IN  response' = [kind |-> "score", logit |-> logit, prob |-> prob,
                        completion_prob |->
                            CompletionDisplay(Some(prob)).completion_prob]
    /\ UNCHANGED <<checkins, hrv_readings, habit_anchors, now, call, frame>>

\* _sigmoid on a given logit, and the percentage the dashboard shows for it
sigmoid_call ==
    /\ call.fn = "_sigmoid"
    /\ LET prob == _sigmoid(call.x)
       IN  response' = [kind |-> "_sigmoid", out |-> prob,
                        completion_prob |->
                            CompletionDisplay(Some(prob)).completion_prob]
    /\ UNCHANGED <<checkins, hrv_readings, habit_anchors, now, call, frame>>

\* dashboard step 6 on a given result of the estimator
display_call ==
    /\ call.fn = "display"
    /\ LET display == CompletionDisplay(call.completion_probability)
       IN  response' = [kind |-> "display",
                        completion_prob |-> display.completion_prob,
                        completion_explanation |-> display.completion_explanation]
    /\ UNCHANGED <<checkins, hrv_readings, habit_anchors, now, call, frame>>

NextHelpers ==
    \/ smooth_call
    \/ classify_readiness_call
    \/ hrv_tip_call
    \/ tiny_prompt_call
    \/ risk_day_call
    \/ score_call
    \/ sigmoid_call
    \/ display_call

SpecHelpers == InitHelpers /\ [][NextHelpers]_vars

----------------------------------------------------------------------------
(* Properties *)

\* the dates on which the user has a check-in
DatesOf(u) == {r.local_date : r \in {x \in checkins : x.user = u}}

\* C1: the streak the dashboard reports is the largest k >= 0 such that
\* today, today-1, ..., today-(k-1) are all dates of a check-in of the user:
\* every one of these k days has a check-in and day today-k has none (so 0
\* for no check-in at all and whenever today has none).
C1_StreakIsRunEndingToday ==
    response.kind = "dashboard" =>
        LET D == DatesOf(response.user)
            k == response.streak.days
        IN  /\ k >= 0
            /\ \A j \in 0 .. k - 1 : Today - j \in D
            /\ Today - k \notin D
            /\ (D = {} => k = 0)
            /\ (Today \notin D => k = 0)
            /\ (Today \in D /\ Today - 1 \notin D => k = 1)

\* C1 witness: a gap at today-1 with today and today-2 present, streak 1
C1_Witness ==
    /\ response.kind = "dashboard"
    /\ response.streak.days = 1
    /\ Today \in DatesOf(response.user)
    /\ Today - 1 \notin DatesOf(response.user)
    /\ Today - 2 \in DatesOf(response.user)

\* whether the points are one per day of the n days ending today, ascending
DenseWindow(out, n) ==
    /\ Len(out) = n
    /\ \A i \in 1 .. n : out[i].date = Today - (n - i)
    /\ \A i \in 1 .. n - 1 : out[i].date < out[i + 1].date

\* C2: _last_n_days(user, N) returns exactly N points, dated today-(N-1) to
\* today in strictly ascending order, one per calendar day, whatever is
\* stored; the dashboard's trend is the case N = 7.
C2_TrendIsDense ==
    /\ response.kind = "_last_n_days" => DenseWindow(response.out, response.n)
    /\ response.kind = "dashboard" => DenseWindow(response.trend, 7)

\* C2 witness: a window longer than the user's data (one check-in, N >= 2)
C2_Witness ==
    /\ response.kind = "_last_n_days"
    /\ response.n >= 2
    /\ Cardinality(DatesOf(response.user)) = 1
    /\ Today - 1 \in DatesOf(response.user)

\* whether each point carries the mood and status of the user's check-in of
\* its date, and the given sentinel with no mood where there is none
CarriesCheckIns(out, u, sentinel) ==
    \A i \in 1 .. Len(out) :
        LET rows == RowsFor(checkins, u, out[i].date)
        IN  /\ rows # {} =>
                \E c \in rows : out[i].mood = c.mood /\ out[i].status = c.status
            /\ rows = {} => out[i].status = sentinel /\ IsNone(out[i].mood)

\* C3 (as amended): each trend point carries the mood (possibly absent) and
\* status of that user's check-in for its date when one exists, and otherwise
\* the status "miss" with mood absent; with no records all 7 points of the
\* dashboard's window have status "miss" and no mood.
C3_TrendCarriesCheckInsOrMiss ==
    /\ response.kind = "_last_n_days" =>
          CarriesCheckIns(response.out, response.user, "miss")
    /\ response.kind = "dashboard" =>
          CarriesCheckIns(response.trend, response.user, "miss")

\* C3 as stated: the sentinel of a day without a check-in is "missing"
C3_Original_SentinelIsMissing ==
    /\ response.kind = "_last_n_days" =>
          CarriesCheckIns(response.out, response.user, "missing")
    /\ response.kind = "dashboard" =>
          CarriesCheckIns(response.trend, response.user, "missing")

\* C3 witness: a dashboard trend with a day that has a check-in with a mood,
\* a day whose check-in has no mood, and a day without a check-in
C3_Witness ==
    /\ response.kind = "dashboard"
    /\ \E i, j, k \in 1 .. 7 :
          /\ RowsFor(checkins, response.user, response.trend[i].date) # {}
          /\ ~IsNone(response.trend[i].mood)
          /\ RowsFor(checkins, response.user, response.trend[j].date) # {}
          /\ IsNone(response.trend[j].mood)
          /\ RowsFor(checkins, response.user, response.trend[k].date) = {}

RECURSIVE IndexSum(_, _)
\* the sum of the values at the positions P of a sequence of optional numbers
IndexSum(values, P) ==
    IF P = {} THEN 0
    ELSE LET j == CHOOSE x \in P : TRUE
         IN  TheValue(values[j]) + IndexSum(values, P \ {j})

\* C4: _smooth returns a sequence of the same length whose element i is the
\* mean of the non-absent values in the trailing window of k positions ending
\* at i (fewer at the start), and is absent exactly when that window holds no
\* value; for k = 3 on [2, 4, None, 6] the result is [2.0, 3.0, 3.0, 5.0].
C4_SmoothIsTrailingMean ==
    response.kind = "_smooth" =>
        LET v == call.values
            k == call.k
            out == response.out
        IN  /\ Len(out) = Len(v)
            /\ \A i \in 1 .. Len(v) :
                  LET lo == IF i - k + 1 >= 1 THEN i - k + 1 ELSE 1
                      P == {j \in lo .. i : v[j] # {}}
                  IN  /\ (out[i] = {}) <=> (P = {})
                      /\ P # {} =>
                            \A m \in out[i] :
                               /\ m.den > 0
                               /\ m.num * Cardinality(P) = m.den * IndexSum(v, P)
            /\ (v = <<{2}, {4}, {}, {6}>> /\ k = 3) =>
                  out = << {[num |-> 2, den |-> 1]}, {[num |-> 3, den |-> 1]},
                           {[num |-> 3, den |-> 1]}, {[num |-> 5, den |-> 1]} >>

\* C4 witness: the example, smoothed
C4_Witness ==
    /\ response.kind = "_smooth"
    /\ call.values = <<{2}, {4}, {}, {6}>>
    /\ call.k = 3

\* the risk predicate as stated: status warn or block, or a mood <= 2
StatedRisk(p) ==
    \/ p.status = "warn"
    \/ p.status = "block"
    \/ \E m \in p.mood : m <= 2

\* C5: a trend point is a risk day if and only if its status is warn or
\* block, or its mood is present and <= 2: warn with mood 5 is flagged, mood 1
\* with ok is flagged, mood 3 with ok is not.
C5_RiskPredicate ==
    response.kind = "is_risk_day" =>
        /\ response.out = StatedRisk(call.point)
        /\ (call.point.status = "warn" /\ call.point.mood = {5}) => response.out
        /\ (call.point.status = "ok" /\ call.point.mood = {1}) => response.out
        /\ (call.point.status = "ok" /\ call.point.mood = {3}) => ~response.out

\* C5 witness: status ok with the boundary mood 2, flagged
C5_Witness ==
    /\ response.kind = "is_risk_day"
    /\ call.point.status = "ok"
    /\ call.point.mood = {2}
    /\ response.out

\* C6: in every dashboard result risk_count is the length of risk_days,
\* risk_days is the subsequence of the trend points that satisfy the risk
\* predicate, in the trend's order, and no day without a check-in is in it.
C6_RiskDaysAreTheRiskPoints ==
    response.kind = "dashboard" =>
        /\ response.risk_count = Len(response.risk_days)
        /\ response.risk_days = SelectSeq(response.trend, StatedRisk)
        /\ \A i \in 1 .. Len(response.risk_days) :
              /\ RowsFor(checkins, response.user, response.risk_days[i].date) # {}
              /\ i > 1 => response.risk_days[i - 1].date < response.risk_days[i].date

\* C6 witness: two risk days, a check-in day that is none, and missing days
C6_Witness ==
    /\ response.kind = "dashboard"
    /\ response.risk_count = 2
    /\ Cardinality(DatesOf(response.user)) = 3

\* the readiness label as stated, from the optional RMSSD
StatedLabel(rmssd) ==
    IF rmssd = {} THEN "No HRV data yet"
    ELSE IF \E r \in rmssd : r >= 60 THEN "High readiness"
    ELSE IF \E r \in rmssd : 40 <= r /\ r < 60 THEN "Moderate readiness"
    ELSE "Low readiness"

\* C7: _classify_readiness is a function of the RMSSD alone: no reading, or
\* a reading without RMSSD, gives "No HRV data yet", RMSSD >= 60 "High
\* readiness", 40 <= RMSSD < 60 "Moderate readiness", RMSSD < 40 "Low
\* readiness", whatever the resting heart rate.
C7_ReadinessByRmssdAlone ==
    response.kind = "_classify_readiness" =>
        LET rmssd == IF call.latest_hrv = {} THEN {}
                     ELSE TheValue(call.latest_hrv).rmssd_ms
        IN  response.out.label = StatedLabel(rmssd)

\* C7 witness: a high RMSSD with a high resting heart rate, classified
C7_Witness ==
    /\ response.kind = "_classify_readiness"
    /\ call.latest_hrv = {[rmssd_ms |-> {65}, resting_hr |-> {70}]}
    /\ response.out.label = "High readiness"

\* the user's HRV readings measured today
TodaysReadings(u) ==
    {r \in hrv_readings :
        r.user = u /\ r.measured_at \div SlotsPerDay = now \div SlotsPerDay}

\* the user's check-ins of today that carry an HRV value
TodaysHrvCheckIns(u) ==
    {c \in checkins : c.user = u /\ c.local_date = Today /\ c.hrv_rmssd # {}}

\* C8: the dashboard's readiness comes from a measurement of today only:
\* when the user has readings measured today, one of greatest measured_at is
\* used; a reading measured on an earlier day is never used; a user with no
\* reading of today and no HRV value in today's check-in gets the label
\* "No HRV data yet", whatever earlier readings exist.
C8_ReadinessFromTodayOnly ==
    response.kind = "dashboard" =>
        LET T == TodaysReadings(response.user)
        IN  /\ T # {} =>
                \E r \in T :
                   /\ \A y \in T : y.measured_at <= r.measured_at
                   /\ response.latest_hrv = {r}
                   /\ response.readiness.label = StatedLabel(r.rmssd_ms)
            /\ \A r \in hrv_readings :
                  r.measured_at \div SlotsPerDay < Today => response.latest_hrv # {r}
            /\ (T = {} /\ TodaysHrvCheckIns(response.user) = {}) =>
                  /\ response.latest_hrv = {}
                  /\ response.readiness.label = "No HRV data yet"

\* C8 witness: the user's only reading, with an RMSSD, is of an earlier day
C8_Witness ==
    /\ response.kind = "dashboard"
    /\ TodaysReadings(response.user) = {}
    /\ \E r \in hrv_readings : r.user = response.user /\ r.rmssd_ms # {}
    /\ response.readiness.label = "No HRV data yet"

\* whether the measurement the dashboard classified is the stand-in built
\* from a check-in (it is no row of the HRVReading table)
Substituted == response.latest_hrv # {} /\ response.latest_hrv \cap hrv_readings = {}

\* C9: the HRV value of today's check-in is substituted exactly when the
\* user has no HRV reading measured today and today's check-in has an HRV
\* value; the substitute carries that RMSSD and no resting heart rate, and
\* the HRV tip then shows that RMSSD and mentions no resting heart rate.
C9_FallbackToCheckInHrv ==
    response.kind = "dashboard" =>
        LET T == TodaysReadings(response.user)
            C == TodaysHrvCheckIns(response.user)
        IN  /\ Substituted <=> (T = {} /\ C # {})
            /\ Substituted =>
                  \E c \in C : \A h \in response.latest_hrv :
                     /\ h.rmssd_ms = c.hrv_rmssd
                     /\ h.resting_hr = {}
                     /\ response.hrv_tip.rmssd = c.hrv_rmssd
                     /\ response.hrv_tip.resting_hr = {}
                     /\ response.readiness.label = StatedLabel(c.hrv_rmssd)

\* C9 witness: the substitute is used while an earlier day's reading of the
\* user has a resting heart rate
C9_Witness ==
    /\ response.kind = "dashboard"
    /\ Substituted
    /\ \E r \in hrv_readings :
          r.user = response.user /\ r.resting_hr # {} /\ r.resting_hr # {0}

C11_SigmoidInUnitInterval ==
    response.kind \in {"_sigmoid", "score"} =>
        /\ LET p == IF response.kind = "score" THEN response.prob ELSE response.out
           IN  0 <= p /\ p <= ONE
        /\ 0 <= response.completion_prob /\ response.completion_prob <= 1000
        /\ response.kind = "_sigmoid" =>
              /\ call.x < 0 - ExpOverflowAt => response.out = 0
              /\ call.x > ExpOverflowAt => response.out = ONE

\* C11 witness: a logit for which math.exp overflows
C11_Witness ==
    /\ response.kind = "_sigmoid"
    /\ call.x < 0 - ExpOverflowAt
    /\ response.out = 0
    /\ response.completion_prob = 0

\* the band the explanation is stated to use for a probability in millionths
StatedBand(p) ==
    IF p < 330000 THEN "challenging"
    ELSE IF p < 670000 THEN "moderate"
    ELSE "favorable"

C14_RecentIsTrailingSevenDays ==
    response.kind = "dashboard" =>
        /\ response.prediction.n_recent =
              Cardinality({c \in checkins :
                              /\ c.user = response.user
                              /\ Today - 7 < c.local_date
                              /\ c.local_date <= Today})
        /\ response.prediction.n_recent <= 7

\* the user's HRV readings of any date
ReadingsOf(u) == {r \in hrv_readings : r.user = u}

\* the feature taken from an optional field of a reading: its value when
\* present and not 0, else the default
FeatureOr(field, default) ==
    IF field # {} /\ field # {0} THEN CHOOSE v \in field : TRUE ELSE default

\* C15 (as amended): the physiological features are those of the user's
\* latest HRV reading, whatever its date: RMSSD and resting heart rate are
\* that reading's values, and the defaults 0.0 and 70 are used when the user
\* has no reading or that latest reading's value is absent or 0.
C15_FeaturesOfLatestReading ==
    response.kind = "dashboard" =>
        LET R == ReadingsOf(response.user)
        IN  IF R = {}
            THEN /\ response.prediction.rmssd = DEFAULT_RMSSD
                 /\ response.prediction.resting_hr = DEFAULT_RESTING_HR
            ELSE \E r \in R :
                    /\ \A y \in R : y.measured_at <= r.measured_at
                    /\ response.prediction.rmssd = FeatureOr(r.rmssd_ms, DEFAULT_RMSSD)
                    /\ response.prediction.resting_hr =
                          FeatureOr(r.resting_hr, DEFAULT_RESTING_HR)

\* C15 as stated: a default is used only when no reading of the user ever
\* recorded the value; otherwise the feature is the latest recorded value.
C15_Original_DefaultOnlyIfNeverRecorded ==
    response.kind = "dashboard" =>
        LET R == ReadingsOf(response.user)
            WithRmssd == {r \in R : r.rmssd_ms # {}}
            WithHr == {r \in R : r.resting_hr # {}}
        IN  /\ IF WithRmssd = {}
               THEN response.prediction.rmssd = DEFAULT_RMSSD
               ELSE \E r \in WithRmssd :
                       /\ \A y \in WithRmssd : y.measured_at <= r.measured_at
                       /\ r.rmssd_ms = {response.prediction.rmssd}
            /\ IF WithHr = {}
               THEN response.prediction.resting_hr = DEFAULT_RESTING_HR
               ELSE \E r \in WithHr :
                       /\ \A y \in WithHr : y.measured_at <= r.measured_at
                       /\ r.resting_hr = {response.prediction.resting_hr}

\* C15 witness: the features come from a reading of an earlier day
C15_Witness ==
    /\ response.kind = "dashboard"
    /\ TodaysReadings(response.user) = {}
    /\ \E r \in ReadingsOf(response.user) :
          /\ r.rmssd_ms = {response.prediction.rmssd}
          /\ r.resting_hr = {response.prediction.resting_hr}
          /\ response.prediction.rmssd # DEFAULT_RMSSD

\* C16: when total_a <= 0 or total_b <= 0, permutation_test returns exactly
\* 1.0 and performs no permutation, whatever the success counts and the
\* iteration count are.
C16_DegenerateTotalsReturnOne ==
    (call.fn = "permutation_test" /\ (call.total_a <= 0 \/ call.total_b <= 0)) =>
        /\ frame.pc \in {"idle", "done"}
        /\ frame.pc = "done" =>
              /\ frame.i = 0
              /\ response = [kind |-> "permutation_test", raised |-> "",
                             out |-> [num |-> 1, den |-> 1]]

\* C16 witness: a call with total_b = 0, positive success counts and a
\* positive iteration count has returned
C16_Witness ==
    /\ call.fn = "permutation_test"
    /\ call.total_a > 0 /\ call.total_b = 0
    /\ call.success_a > 0 /\ call.success_b > 0 /\ call.iters > 0
    /\ frame.pc = "done"
    /\ response.out = [num |-> 1, den |-> 1]

\* whether the groups of the call are well formed
WellFormedGroups ==
    /\ call.fn = "permutation_test"
    /\ call.total_a > 0 /\ call.total_b > 0
    /\ 0 <= call.success_a /\ call.success_a <= call.total_a
    /\ 0 <= call.success_b /\ call.success_b <= call.total_b

\* C17 as stated: on well-formed groups and iters >= 1, every permutation
\* splits the pool into slices of sizes total_a and total_b and keeps the
\* number of ones; count grows by one exactly for a permutation whose
\* absolute proportion difference is at least the absolute observed one
\* (compared exactly, over the common denominator total_a * total_b); the
\* result is count / iters.
C17_CountsPermutationsAtLeastAsExtreme ==
    /\ [][(WellFormedGroups /\ frame.pc = "loop" /\ frame'.pc = "loop") =>
            /\ Len(frame'.a_slice) = call.total_a
            /\ Len(frame'.b_slice) = call.total_b
            /\ SeqSum(frame'.a_slice) + SeqSum(frame'.b_slice)
                  = call.success_a + call.success_b
            /\ frame'.count = frame.count +
                  (IF Abs(SeqSum(frame'.a_slice) * call.total_b
                          - SeqSum(frame'.b_slice) * call.total_a)
                      >= Abs(call.success_a * call.total_b
                             - call.success_b * call.total_a)
                   THEN 1 ELSE 0)]_vars
    /\ []((WellFormedGroups /\ call.iters >= 1 /\ frame.pc = "done") =>
            response.out = Float(frame.count, call.iters))

\* C18: when the two groups have the same success proportion and
\* iters >= 1, the result is 1.0 whatever the shuffles give.
C18_EqualProportionsGiveOne ==
    (/\ call.fn = "permutation_test"
     /\ call.total_a > 0 /\ call.total_b > 0
     /\ call.success_a * call.total_b = call.success_b * call.total_a
     /\ call.iters >= 1
     /\ frame.pc = "done") =>
        response = [kind |-> "permutation_test", raised |-> "",
                    out |-> [num |-> 1, den |-> 1]]

\* C18 witness: 1 of 2 against 1 of 2 over two iterations
C18_Witness ==
    /\ call.fn = "permutation_test"
    /\ call.success_a = 1 /\ call.total_a = 2
    /\ call.success_b = 1 /\ call.total_b = 2
    /\ call.iters = 2
    /\ frame.pc = "done"
    /\ response.out = [num |-> 1, den |-> 1]

\* C19 as stated: for non-negative integer arguments permutation_test
\* returns a p-value in [0,1] and raises nothing.
C19_NeverRaises ==
    (call.fn = "permutation_test" /\ frame.pc = "done") =>
        /\ response.raised = ""
        /\ 0 <= response.out.num /\ response.out.num <= response.out.den

\* the sequence with its elements i and j exchanged
Swap(q, i, j) == [q EXCEPT ![i] = q[j], ![j] = q[i]]

\* C20: quick_vif returns one value per column, in the order of the
\* columns: the empty list for no columns, [1.0] for one column, a list as
\* long as the input for more; exchanging two columns exchanges their two
\* values and leaves the others.
C20_OneVifPerColumn ==
    response.kind = "quick_vif" =>
        LET n == Len(call.columns)
        IN  /\ Len(response.out) = n
            /\ n = 0 => response.out = <<>>
            /\ n = 1 => response.out = <<1000000>>
            /\ \A i \in 1 .. n : \A j \in i + 1 .. n :
                  quick_vif(Swap(call.columns, i, j)) = Swap(response.out, i, j)

\* C20 witness: three columns whose values differ
C20_Witness ==
    /\ response.kind = "quick_vif"
    /\ Len(call.columns) = 3
    /\ Len(response.out) = 3
    /\ response.out[1] # response.out[2]

\* the columns all have one length
EqualLength(columns) ==
    \A i, j \in 1 .. Len(columns) : Len(columns[i]) = Len(columns[j])

\* every value of the column is the same (variance 0)
IsConstant(col) == \A i, j \in 1 .. Len(col) : col[i] = col[j]

\* b is a times a non-zero factor plus an offset, and neither is constant
PerfectlyCorrelated(a, b) ==
    /\ Len(a) = Len(b)
    /\ \E i, j \in 1 .. Len(a) :
          /\ a[i] # a[j]
          /\ b[i] # b[j]
          /\ \A k, l \in 1 .. Len(a) :
                (a[k] - a[l]) * (b[i] - b[j]) = (b[k] - b[l]) * (a[i] - a[j])

\* C21: for equal-length columns every VIF of quick_vif lies in [1, 100];
\* two perfectly correlated columns both get 100, and with two columns one
\* of which is constant both VIFs are 1.0.
C21_VifBetweenOneAndHundred ==
    (response.kind = "quick_vif" /\ EqualLength(call.columns)) =>
        LET c == call.columns
            out == response.out
        IN  /\ \A i \in 1 .. Len(out) : ONE <= out[i] /\ out[i] <= 100 * ONE
            /\ (Len(c) = 2 /\ PerfectlyCorrelated(c[1], c[2]))
                  => out = <<100 * ONE, 100 * ONE>>
            /\ (Len(c) = 2 /\ (IsConstant(c[1]) \/ IsConstant(c[2])))
                  => out = <<ONE, ONE>>

\* C21 witness: two perfectly correlated columns of three values, one
\* falling where the other rises, both at the maximum
C21_Witness ==
    /\ response.kind = "quick_vif"
    /\ Len(call.columns) = 2
    /\ Len(call.columns[1]) = 3
    /\ call.columns[1] # call.columns[2]
    /\ PerfectlyCorrelated(call.columns[1], call.columns[2])
    /\ response.out = <<100 * ONE, 100 * ONE>>

----------------------------------------------------------------------------
(* The views as concurrent requests. Each request in flight holds a slot   *)
(* of frame with its locals; one step is one statement that reaches the    *)
(* database, so the steps of different requests interleave. Rows carry     *)
(* their primary key and, for a check-in, checked_in_at.                   *)

Slots == 1 .. MaxRequests

\* a CheckIn row as stored, with pk and checked_in_at
StoredCheckIn(pk, u, d, t, f, src) ==
    [pk |-> pk, user |-> u, local_date |-> d, checked_in_at |-> t,
     status |-> f.status, mood |-> f.mood, note |-> f.note, tags |-> f.tags,
     hrv_rmssd |-> f.hrv_rmssd, source |-> src]

\* a HabitAnchor row as stored
StoredAnchor(pk, u, t, f) ==
    [pk |-> pk, user |-> u, anchor_action |-> f.anchor_action,
     tiny_behavior |-> f.tiny_behavior, celebration |-> f.celebration,
     is_active |-> f.is_active, created_at |-> t]

AnchorForm(action, behavior, active) ==
    [anchor_action |-> action, tiny_behavior |-> behavior, celebration |-> "",
     is_active |-> active]

\* HabitAnchorForm.is_valid: anchor_action and tiny_behavior are required
anchor_is_valid(f) == f.anchor_action # "" /\ f.tiny_behavior # ""

\* the submissions tried on the anchor form: the last one is invalid
AnchorForms ==
    { AnchorForm("after lunch", "I will walk", FALSE),
      AnchorForm("", "I will walk", TRUE) }

\* a request's object before the table has given it a key
NoPk == 0

Idle == [pc |-> "idle"]

\* the locals of a request in flight: where it is, and the object it holds
Locals(view, u, pc, obj) == [pc |-> pc, view |-> view, user |-> u, obj |-> obj]

\* what a request answers
Response(kind, view) == [kind |-> kind, view |-> view]

\* the keys the requests in flight hold
HeldPks == {frame[s].obj.pk : s \in {x \in Slots : frame[x] # Idle}}

\* AutoField: the key of a new row, one that no row has and no request in
\* flight holds (the least such: the key of a deleted row that nothing
\* refers to any more stands for a fresh one)
NextPk(rows) ==
    LET used == {r.pk : r \in rows} \cup HeldPks \cup {NoPk}
    IN  CHOOSE k \in 1 .. Cardinality(used) :
           k \notin used /\ \A j \in 1 .. k - 1 : j \in used

\* mutant of InsertCheckIn: the table has no unique constraint
InsertCheckInUnconstrained(rows, row) ==
    [ok |-> TRUE, rows |-> rows \cup {[row EXCEPT !.pk = NextPk(rows)]}]

\* INSERT of a check-in: uniq_checkin_per_user_per_day refuses a second row
\* for the pair (IntegrityError)
InsertCheckIn(rows, row) ==
    IF UniqueOk(rows, row)
    THEN [ok |-> TRUE, rows |-> rows \cup {[row EXCEPT !.pk = NextPk(rows)]}]
    ELSE [ok |-> FALSE, rows |-> rows]

\* Model.save() of a check-in that has a key: UPDATE of the row with the
\* key, or INSERT with that key when the row is gone; the unique constraint
\* holds against the other rows
SaveCheckIn(rows, obj) ==
    LET others == {r \in rows : r.pk # obj.pk}
    IN  IF UniqueOk(others, obj)
        THEN [ok |-> TRUE, rows |-> others \cup {obj}]
        ELSE [ok |-> FALSE, rows |-> rows]

\* Model.save() of an anchor that has a key
SaveAnchor(rows, obj) == {r \in rows : r.pk # obj.pk} \cup {obj}

\* mutant of get_object_or_404: the row is looked up by its key alone
get_object_or_404_any_user(rows, pk, u) == {r \in rows : r.pk = pk}

\* get_object_or_404(Model, pk=pk, user=request.user)
get_object_or_404(rows, pk, u) == {r \in rows : r.pk = pk /\ r.user = u}

\* the keys of the table
KeysOf(rows) == {r.pk : r \in rows}

\* the keys a URL may name: those of the table and one that no row has
UrlPks(rows) == KeysOf(rows) \cup {NoPk}

\* mutant of check_in_today_begin: update_or_create in place of get_or_create
check_in_today_begin_update_or_create(s, u) ==
    /\ frame[s] = Idle
    /\ frame' = [frame EXCEPT ![s] =
          LET found == RowsFor(checkins, u, Today)
          IN  IF found # {}
              THEN Locals("check_in_today", u, "save",
                          [UpdateRow(CHOOSE r \in found : TRUE, FieldDefaults)
                             EXCEPT !.checked_in_at = now, !.source = "web"])
              ELSE Locals("check_in_today", u, "create",
                          StoredCheckIn(NoPk, u, Today, now, FieldDefaults, "web"))]
    /\ UNCHANGED <<checkins, hrv_readings, habit_anchors, now, call, response>>

\* check_in_today, lines 20-34: the defaults are built, then get_or_create
\* looks for today's row
check_in_today_begin(s, u) ==
    /\ frame[s] = Idle
    /\ IF RowsFor(checkins, u, Today) # {}
       THEN /\ response' = Response("redirect", "check_in_today")
            /\ frame' = frame
       ELSE /\ frame' = [frame EXCEPT ![s] =
                 Locals("check_in_today", u, "create",
                        StoredCheckIn(NoPk, u, Today, now, FieldDefaults, "web"))]
            /\ response' = response
    /\ UNCHANGED <<checkins, hrv_readings, habit_anchors, now, call>>

\* mutant of checkin_create_begin: the row found is saved as it was read
checkin_create_begin_keeps_fields(s, u, method, f) ==
    LET found == RowsFor(checkins, u, Today)
    IN  /\ frame[s] = Idle
        /\ IF method = "POST" /\ is_valid(f)
           THEN /\ frame' = [frame EXCEPT ![s] =
                     IF found # {}
                     THEN Locals("checkin_create", u, "save",
                                 CHOOSE r \in found : TRUE)
                     ELSE Locals("checkin_create", u, "create",
                                 StoredCheckIn(NoPk, u, Today, now, f, "web"))]
                /\ response' = response
           ELSE /\ response' = Response("form", "checkin_create")
                /\ frame' = frame
        /\ UNCHANGED <<checkins, hrv_readings, habit_anchors, now, call>>

\* checkin_create, lines 42-59: a valid POST builds the defaults, then
\* get_or_create looks for today's row; lines 62-64 set the form's fields
\* on the row found
checkin_create_begin(s, u, method, f) ==
    LET found == RowsFor(checkins, u, Today)
    IN  /\ frame[s] = Idle
        /\ IF method = "POST" /\ is_valid(f)
           THEN /\ frame' = [frame EXCEPT ![s] =
                     IF found # {}
                     THEN Locals("checkin_create", u, "save",
                                 UpdateRow(CHOOSE r \in found : TRUE, f))
                     ELSE Locals("checkin_create", u, "create",
                                 StoredCheckIn(NoPk, u, Today, now, f, "web"))]
                /\ response' = response
           ELSE /\ response' = Response("form", "checkin_create")
                /\ frame' = frame
        /\ UNCHANGED <<checkins, hrv_readings, habit_anchors, now, call>>

\* get_or_create after its get found nothing: the INSERT, which the
\* constraint may refuse when another request got there first
get_or_create_insert(s) ==
    /\ frame[s].pc = "create"
    /\ LET q == frame[s]
           ins == InsertCheckIn(checkins, q.obj)
       IN  /\ checkins' = ins.rows
           /\ IF ins.ok
              THEN /\ frame' = [frame EXCEPT ![s] = Idle]
                   /\ response' = Response("redirect", q.view)
              ELSE /\ frame' = [frame EXCEPT ![s].pc = "reget"]
                   /\ response' = response
    /\ UNCHANGED <<hrv_readings, habit_anchors, now, call>>

\* get_or_create after IntegrityError: the second get, and the error again
\* when that row is gone too; checkin_create goes on to lines 62-64
get_or_create_retry(s) ==
    /\ frame[s].pc = "reget"
    /\ LET q == frame[s]
           found == RowsFor(checkins, q.user, q.obj.local_date)
       IN  IF found # {} /\ q.view = "checkin_create"
           THEN /\ frame' = [frame EXCEPT ![s] =
                     Locals(q.view, q.user, "save",
                            UpdateRow(CHOOSE r \in found : TRUE, q.obj))]
                /\ response' = response
           ELSE /\ frame' = [frame EXCEPT ![s] = Idle]
                /\ response' =
                     Response(IF found = {} THEN "IntegrityError" ELSE "redirect", q.view)
    /\ UNCHANGED <<checkins, hrv_readings, habit_anchors, now, call>>

\* obj.save() of checkin_create (line 65) and form.save() of
\* checkin_edit_view (line 93)
checkin_save(s) ==
    /\ frame[s].pc = "save"
    /\ LET q == frame[s]
           saved == SaveCheckIn(checkins, q.obj)
       IN  /\ checkins' = saved.rows
           /\ response' =
                Response(IF saved.ok THEN "redirect" ELSE "IntegrityError", q.view)
    /\ frame' = [frame EXCEPT ![s] = Idle]
    /\ UNCHANGED <<hrv_readings, habit_anchors, now, call>>

\* checkin_edit_view, lines 88-92: the row of the user or 404; a valid POST
\* sets the form's fields on it
checkin_edit_view_begin(s, u, pk, method, f) ==
    LET found == get_object_or_404(checkins, pk, u)
    IN  /\ frame[s] = Idle
        /\ IF found # {} /\ method = "POST" /\ is_valid(f)
           THEN /\ frame' = [frame EXCEPT ![s] =
                     Locals("checkin_edit_view", u, "save",
                            UpdateRow(CHOOSE r \in found : TRUE, f))]
                /\ response' = response
           ELSE /\ response' =
                     Response(IF found = {} THEN "Http404" ELSE "form", "checkin_edit_view")
                /\ frame' = frame
        /\ UNCHANGED <<checkins, hrv_readings, habit_anchors, now, call>>

\* checkin_delete_view, lines 105-107 and the redirect of line 110
checkin_delete_view_begin(s, u, pk, method) ==
    LET found == get_object_or_404(checkins, pk, u)
    IN  /\ frame[s] = Idle
        /\ IF found # {} /\ method = "POST"
           THEN /\ frame' = [frame EXCEPT ![s] =
                     Locals("checkin_delete_view", u, "delete",
                            CHOOSE r \in found : TRUE)]
                /\ response' = response
           ELSE /\ response' =
                     Response(IF found = {} THEN "Http404" ELSE "redirect", "checkin_delete_view")
                /\ frame' = frame
        /\ UNCHANGED <<checkins, hrv_readings, habit_anchors, now, call>>

\* checkin.delete(), line 108
checkin_delete(s) ==
    /\ frame[s].pc = "delete"
    /\ checkins' = {r \in checkins : r.pk # frame[s].obj.pk}
    /\ response' = Response("redirect", frame[s].view)
    /\ frame' = [frame EXCEPT ![s] = Idle]
    /\ UNCHANGED <<hrv_readings, habit_anchors, now, call>>

\* CheckIn.objects.create on the table with keys
checkin_objects_create_stored(u, d, f, src) ==
    LET ins == InsertCheckIn(checkins, StoredCheckIn(NoPk, u, d, now, f, src))
    IN  /\ checkins' = ins.rows
        /\ response' = Response(IF ins.ok THEN "created" ELSE "IntegrityError", "CheckIn.objects.create")
        /\ UNCHANGED <<hrv_readings, habit_anchors, now, call, frame>>

\* habit_anchor_create_view, lines 495-515
habit_anchor_create_view(u, method, f) ==
    /\ IF method = "POST" /\ anchor_is_valid(f)
       THEN /\ habit_anchors' = habit_anchors
                 \cup {StoredAnchor(NextPk(habit_anchors), u, now, f)}
            /\ response' = Response("redirect", "habit_anchor_create_view")
       ELSE /\ habit_anchors' = habit_anchors
            /\ response' = Response("form", "habit_anchor_create_view")
    /\ UNCHANGED <<checkins, hrv_readings, now, call, frame>>

\* habit_anchor_toggle_active_view, lines 532-534 and the redirect of 537
habit_anchor_toggle_active_view_begin(s, u, pk, method) ==
    LET found == get_object_or_404(habit_anchors, pk, u)
    IN  /\ frame[s] = Idle
        /\ IF found # {} /\ method = "POST"
           THEN /\ frame' = [frame EXCEPT ![s] =
                     LET anchor == CHOOSE r \in found : TRUE
                     IN  Locals("habit_anchor_toggle_active_view", u, "save_anchor",
                                [anchor EXCEPT !.is_active = ~anchor.is_active])]
                /\ response' = response
           ELSE /\ response' =
                     Response(IF found = {} THEN "Http404" ELSE "redirect", "habit_anchor_toggle_active_view")
                /\ frame' = frame
        /\ UNCHANGED <<checkins, hrv_readings, habit_anchors, now, call>>

\* habit_anchor_edit_view, lines 544-548
habit_anchor_edit_view_begin(s, u, pk, method, f) ==
    LET found == get_object_or_404(habit_anchors, pk, u)
    IN  /\ frame[s] = Idle
        /\ IF found # {} /\ method = "POST" /\ anchor_is_valid(f)
           THEN /\ frame' = [frame EXCEPT ![s] =
                     LET anchor == CHOOSE r \in found : TRUE
                     IN  Locals("habit_anchor_edit_view", u, "save_anchor",
                                [anchor EXCEPT
                                   !.anchor_action = f.anchor_action,
                                   !.tiny_behavior = f.tiny_behavior,
                                   !.celebration = f.celebration,
                                   !.is_active = f.is_active])]
                /\ response' = response
           ELSE /\ response' =
                     Response(IF found = {} THEN "Http404" ELSE "form", "habit_anchor_edit_view")
                /\ frame' = frame
        /\ UNCHANGED <<checkins, hrv_readings, habit_anchors, now, call>>

\* habit_anchor_delete_view, lines 565-567 and the redirect of 570
habit_anchor_delete_view_begin(s, u, pk, method) ==
    LET found == get_object_or_404(habit_anchors, pk, u)
    IN  /\ frame[s] = Idle
        /\ IF found # {} /\ method = "POST"
           THEN /\ frame' = [frame EXCEPT ![s] =
                     Locals("habit_anchor_delete_view", u, "delete_anchor",
                            CHOOSE r \in found : TRUE)]
                /\ response' = response
           ELSE /\ response' =
                     Response(IF found = {} THEN "Http404" ELSE "redirect", "habit_anchor_delete_view")
                /\ frame' = frame
        /\ UNCHANGED <<checkins, hrv_readings, habit_anchors, now, call>>

\* anchor.save() (line 535) and form.save() (line 547)
anchor_save(s) ==
    /\ frame[s].pc = "save_anchor"
    /\ habit_anchors' = SaveAnchor(habit_anchors, frame[s].obj)
    /\ response' = Response("redirect", frame[s].view)
    /\ frame' = [frame EXCEPT ![s] = Idle]
    /\ UNCHANGED <<checkins, hrv_readings, now, call>>

\* anchor.delete(), line 568
anchor_delete(s) ==
    /\ frame[s].pc = "delete_anchor"
    /\ habit_anchors' = {r \in habit_anchors : r.pk # frame[s].obj.pk}
    /\ response' = Response("redirect", frame[s].view)
    /\ frame' = [frame EXCEPT ![s] = Idle]
    /\ UNCHANGED <<checkins, hrv_readings, now, call>>

Methods == {"GET", "POST"}

InitRequests ==
    /\ checkins = {}
    /\ hrv_readings = {}
    /\ habit_anchors = {}
    /\ now = 0
    /\ call = NoCall
    /\ response = NoResponse
    /\ frame = [s \in Slots |-> Idle]

\* the submissions tried on concurrent requests: the last one is invalid
RacingForms == { Form("warn", Some(5), None), Form("ok", Some(6), None) }

\* the check-in views, concurrently, with direct creates, at one time
NextRequests ==
    \/ \E s \in Slots, u \in Users :
          /\ Cardinality(checkins) < MaxStored \/ RowsFor(checkins, u, Today) # {}
          /\ check_in_today_begin(s, u)
    \/ \E s \in Slots, u \in Users, method \in Methods, f \in RacingForms :
          /\ Cardinality(checkins) < MaxStored \/ RowsFor(checkins, u, Today) # {}
          /\ checkin_create_begin(s, u, method, f)
    \/ \E s \in Slots : get_or_create_insert(s)
    \/ \E s \in Slots : get_or_create_retry(s)
    \/ \E s \in Slots : checkin_save(s)
    \/ \E s \in Slots, u \in Users, pk \in UrlPks(checkins),
          method \in Methods, f \in RacingForms :
          checkin_edit_view_begin(s, u, pk, method, f)
    \/ \E s \in Slots, u \in Users, pk \in UrlPks(checkins), method \in Methods :
          checkin_delete_view_begin(s, u, pk, method)
    \/ \E s \in Slots : checkin_delete(s)
    \/ \E u \in Users :
          /\ Cardinality(checkins) < MaxStored
          /\ checkin_objects_create_stored(u, Today, FieldDefaults, "web")

SpecRequests == InitRequests /\ [][NextRequests]_vars

\* the check-in views one request at a time, with direct creates and the
\* clock
NextUpsert ==
    \/ Tick
    \/ \E u \in Users :
          /\ Cardinality(checkins) < MaxStored \/ RowsFor(checkins, u, Today) # {}
          /\ check_in_today_begin(1, u)
    \/ \E u \in Users, method \in Methods, f \in CheckInForms :
          /\ Cardinality(checkins) < MaxStored \/ RowsFor(checkins, u, Today) # {}
          /\ checkin_create_begin(1, u, method, f)
    \/ get_or_create_insert(1)
    \/ get_or_create_retry(1)
    \/ checkin_save(1)
    \/ \E u \in Users, d \in {Today - 1, Today} :
          /\ Cardinality(checkins) < MaxStored
          /\ checkin_objects_create_stored(u, d, FieldDefaults, "seed")

SpecUpsert == InitRequests /\ [][NextUpsert]_vars

\* the views that name a record by its key, one request at a time, on
\* check-ins created directly and on anchors
NextOwned ==
    \/ \E u \in Users :
          /\ Cardinality(checkins) < MaxStored
          /\ checkin_objects_create_stored(u, Today, FieldDefaults, "web")
    \/ \E u \in Users, pk \in KeysOf(checkins), method \in Methods,
          f \in RacingForms :
          checkin_edit_view_begin(1, u, pk, method, f)
    \/ checkin_save(1)
    \/ \E u \in Users, pk \in KeysOf(checkins), method \in Methods :
          checkin_delete_view_begin(1, u, pk, method)
    \/ checkin_delete(1)
    \/ \E u \in Users, method \in Methods, f \in AnchorForms :
          /\ Cardinality(habit_anchors) < MaxAnchors
          /\ habit_anchor_create_view(u, method, f)
    \/ \E u \in Users, pk \in KeysOf(habit_anchors), method \in Methods :
          habit_anchor_toggle_active_view_begin(1, u, pk, method)
    \/ \E u \in Users, pk \in KeysOf(habit_anchors), method \in Methods,
          f \in AnchorForms :
          habit_anchor_edit_view_begin(1, u, pk, method, f)
    \/ \E u \in Users, pk \in KeysOf(habit_anchors), method \in Methods :
          habit_anchor_delete_view_begin(1, u, pk, method)
    \/ anchor_save(1)
    \/ anchor_delete(1)

SpecOwned == InitRequests /\ [][NextOwned]_vars

\* at most one CheckIn per (user, local_date)
UniquePerUserAndDay ==
    \A r1, r2 \in checkins :
        (r1.user = r2.user /\ r1.local_date = r2.local_date) => r1 = r2

\* C22: the store holds at most one CheckIn per (user, local_date) under
\* every interleaving of concurrent check_in_today and checkin_create
\* requests, edits, deletes and direct creates; and a direct create for a
\* pair that has a record fails with IntegrityError and leaves the table as
\* it was.
C22_OnePerUserAndDay ==
    /\ []UniquePerUserAndDay
    /\ [][\A u \in Users :
            (/\ RowsFor(checkins, u, Today) # {}
             /\ checkin_objects_create_stored(u, Today, FieldDefaults, "web"))
            => (response'.kind = "IntegrityError" /\ checkins' = checkins)]_vars

\* C22 witness: the INSERT of a get_or_create was refused because a
\* concurrent request had created the row of the pair in between
C22_Witness ==
    \E s \in Slots :
        /\ frame[s] # Idle
        /\ frame[s].pc = "reget"
        /\ Cardinality(RowsFor(checkins, frame[s].user, frame[s].obj.local_date)) = 1

\* the form fields of a row
FormFields(r) ==
    [status |-> r.status, mood |-> r.mood, note |-> r.note, tags |-> r.tags,
     hrv_rmssd |-> r.hrv_rmssd]

\* C23: a valid checkin_create submission of a user leaves exactly one
\* check-in of the user for that day, carrying the form fields of the
\* submission: the request creates the row when the day has none and
\* updates the row of the day (same key, no new row) when it has one.
C23_LastSubmissionWins ==
    [][/\ \A u \in Users, f \in CheckInForms :
            (is_valid(f) /\ checkin_create_begin(1, u, "POST", f))
            => /\ frame'[1] # Idle
               /\ frame'[1].user = u
               /\ frame'[1].obj.local_date = Today
               /\ FormFields(frame'[1].obj) = f
       /\ (frame[1] # Idle /\ frame[1].view = "checkin_create"
             /\ frame'[1] = Idle /\ response'.kind = "redirect")
            => LET u == frame[1].user
                   d == frame[1].obj.local_date
                   before == RowsFor(checkins, u, d)
                   after == RowsFor(checkins', u, d)
               IN  /\ Cardinality(after) = 1
                   /\ \A r \in after : FormFields(r) = FormFields(frame[1].obj)
                   /\ before = {} => Cardinality(checkins') = Cardinality(checkins) + 1
                   /\ before # {} =>
                        /\ {r.pk : r \in checkins'} = {r.pk : r \in checkins}
                        /\ {r.pk : r \in after} = {r.pk : r \in before}
      ]_vars

\* C23 witness: a submission has just updated a row that a direct create
\* had made: the one row of the day carries the fields of a form
C23_Witness ==
    /\ response = Response("redirect", "checkin_create")
    /\ \E r \in checkins :
          /\ checkins = {r}
          /\ r.source = "seed"
          /\ r.local_date = Today
          /\ FormFields(r) = Form("ok", Some(1), None)

\* C30: check_in_today never modifies an existing check-in: no step of the
\* request changes or removes a row, a call of a user who has a record for
\* today ends at once with the table as it was (so repeated calls leave
\* what one call leaves), and a call that creates the row leaves the user
\* with a record for that day; the update path of checkin_create keeps
\* local_date, checked_in_at and source (and user and key) of the row.
C30_CheckInTodayKeepsExisting ==
    [][/\ \A u \in Users :
            check_in_today_begin(1, u)
            => /\ checkins' = checkins
               /\ RowsFor(checkins, u, Today) # {}
                    => (frame' = frame /\ response'.kind = "redirect")
       /\ (frame[1] # Idle /\ frame[1].view = "check_in_today")
            => /\ checkins \subseteq checkins'
               /\ (frame'[1] = Idle /\ response'.kind = "redirect")
                    => RowsFor(checkins', frame[1].user, frame[1].obj.local_date) # {}
       /\ (frame[1] # Idle /\ frame[1].view = "checkin_create"
             /\ frame[1].pc = "save" /\ frame'[1] = Idle)
            => \A r \in checkins :
                  r.pk = frame[1].obj.pk
                  => \E r2 \in checkins' :
                        /\ r2.pk = r.pk
                        /\ r2.user = r.user
                        /\ r2.local_date = r.local_date
                        /\ r2.checked_in_at = r.checked_in_at
                        /\ r2.source = r.source
      ]_vars

\* C30 witness: check_in_today has just answered a user whose row of today
\* was made earlier in the day with other values than the defaults, and the
\* row is as it was
C30_Witness ==
    /\ response = Response("redirect", "check_in_today")
    /\ \E r \in checkins :
          /\ checkins = {r}
          /\ r.local_date = Today
          /\ r.checked_in_at < now
          /\ r.source = "seed"
          /\ FormFields(r) = Form("warn", Some(5), None)

\* the key names a record of the table that another user owns
Foreign(rows, pk, u) == \E r \in rows : r.pk = pk /\ r.user # u

\* the request has ended and both tables are as they were
EndedUnchanged ==
    /\ frame' = frame
    /\ checkins' = checkins
    /\ habit_anchors' = habit_anchors

\* C28: a request to edit or delete a check-in, or to edit, toggle or
\* delete a habit anchor, that names a record of another user ends in
\* Http404 with both tables unchanged; a delete or toggle request that is
\* not a POST ends with both tables unchanged; and a request that goes on
\* to save or delete holds a record of its own user.
C28_ForeignRecordsNotFound ==
    /\ [](frame[1] # Idle => frame[1].obj.user = frame[1].user)
    /\ [][\A u \in Users, method \in Methods :
            /\ \A pk \in KeysOf(checkins) :
                  /\ (/\ Foreign(checkins, pk, u)
                      /\ \/ \E f \in RacingForms :
                               checkin_edit_view_begin(1, u, pk, method, f)
                         \/ checkin_delete_view_begin(1, u, pk, method))
                     => (response'.kind = "Http404" /\ EndedUnchanged)
                  /\ (method # "POST" /\ checkin_delete_view_begin(1, u, pk, method))
                     => EndedUnchanged
            /\ \A pk \in KeysOf(habit_anchors) :
                  /\ (/\ Foreign(habit_anchors, pk, u)
                      /\ \/ \E f \in AnchorForms :
                               habit_anchor_edit_view_begin(1, u, pk, method, f)
                         \/ habit_anchor_toggle_active_view_begin(1, u, pk, method)
                         \/ habit_anchor_delete_view_begin(1, u, pk, method))
                     => (response'.kind = "Http404" /\ EndedUnchanged)
                  /\ (/\ method # "POST"
                      /\ \/ habit_anchor_toggle_active_view_begin(1, u, pk, method)
                         \/ habit_anchor_delete_view_begin(1, u, pk, method))
                     => EndedUnchanged
         ]_vars

\* C28 witness: a delete of an anchor was answered with Http404 (every key
\* requested is the key of a record, so the record was another user's), and
\* both tables still have their records
C28_Witness ==
    /\ response = Response("Http404", "habit_anchor_delete_view")
    /\ habit_anchors # {}
    /\ Cardinality({r.user : r \in checkins}) = 2

----------------------------------------------------------------------------
(* Two users, each with check-ins and HRV readings, and the dashboard *)

NextUsers ==
    \/ Tick
    \/ \E u \in Users, f \in HrvForms :
          /\ Cardinality(hrv_readings) < MaxReadings
          /\ hrv_create_view(u, "POST", f)
    \/ \E u \in Users, f \in HrvCheckInForms :
          /\ Cardinality(checkins) < MaxStored \/ RowsFor(checkins, u, Today) # {}
          /\ checkin_create(u, "POST", f)
    \/ \E u \in Users : dashboard(u)

SpecUsers == Init /\ [][NextUsers]_vars

\* the rows of a table given to every other user instead
Relabelled(rows, u) ==
    {[r EXCEPT !.user = v] : r \in rows, v \in Users \ {u}}

\* the results the dashboard of u can give on the two tables
DashboardResults(rows, readings, u) ==
    {DashboardContext(rows, readings, u, now, todays_first, overall_first) :
        todays_first \in TodaysLatestHrv(readings, u, Today),
        overall_first \in FirstByMeasuredAtDesc({r \in readings : r.user = u})}

\* C24: a dashboard result of a user depends on the user's own check-ins
\* and HRV readings only: it is a result of the tables without the other
\* users' records, and of the tables where the other users have copies of
\* the user's records instead of their own.
C24_OwnRecordsOnly ==
    response.kind = "dashboard" =>
        LET u == response.user
        IN  /\ response \in DashboardResults(RowsOf(u), ReadingsOf(u), u)
            /\ response \in DashboardResults(
                   RowsOf(u) \cup Relabelled(RowsOf(u), u),
                   ReadingsOf(u) \cup Relabelled(ReadingsOf(u), u), u)

\* C24 witness: a dashboard of a user with a check-in and a reading of
\* today, while another user has a check-in and a reading with other values
C24_Witness ==
    /\ response.kind = "dashboard"
    /\ \E c \in RowsOf(response.user), d \in checkins \ RowsOf(response.user) :
          c.local_date = Today /\ d.local_date = Today /\ c.mood # d.mood
    /\ \E r \in ReadingsOf(response.user), q \in hrv_readings \ ReadingsOf(response.user) :
          /\ LocalDate(r.measured_at) = Today
          /\ LocalDate(q.measured_at) = Today
          /\ r.rmssd_ms # q.rmssd_ms

\* the interpretation band the readiness label goes with
BandOfLabel(label) ==
    CASE label = "No HRV data yet" -> "no data"
      [] label = "High readiness" -> "relatively high"
      [] label = "Moderate readiness" -> "moderate range"
      [] label = "Low readiness" -> "lower side"

\* C25: for every HRV measurement the band of the HRV tip is the one of the
\* readiness label of the same measurement: the no-data explanation exactly
\* with "No HRV data yet", relatively high exactly with "High readiness",
\* moderate exactly with "Moderate readiness", lower side exactly with
\* "Low readiness".
C25_TipBandAgreesWithLabel ==
    response.kind = "_hrv_tip_from_last" =>
        response.out.band = BandOfLabel(_classify_readiness(call.latest_hrv).label)

\* C25 witness: the tip of an RMSSD of 65 with a resting heart rate of 70,
\* relatively high like the label
C25_Witness ==
    /\ response.kind = "_hrv_tip_from_last"
    /\ call.latest_hrv = {[rmssd_ms |-> {65}, resting_hr |-> {70}]}
    /\ response.out.band = "relatively high"
    /\ _classify_readiness(call.latest_hrv).label = "High readiness"

\* the risk-oriented suggestion
RiskPrompt == "After getting up in the morning: take one deep breath + one sip of water."

\* the last n elements of a sequence
LastN(q, n) == SubSeq(q, Max(1, Len(q) - n + 1), Len(q))

\* C26: _tiny_prompt_from_last returns the risk-oriented suggestion if and
\* only if one of the last 3 trend points is a risk day under the
\* dashboard's risk predicate.
C26_TinyPromptFollowsRiskDays ==
    response.kind = "_tiny_prompt_from_last" =>
        LET last3 == LastN(call.out, 3)
        IN  (response.out = RiskPrompt)
              <=> (\E i \in 1 .. Len(last3) : is_risk_day(last3[i]))

\* C27: in a dashboard result the streak and the trend agree: for each k in
\* 1..7, streak.days >= k if and only if none of the last k trend points
\* has the missing sentinel.
C27_StreakAgreesWithTrend ==
    response.kind = "dashboard" =>
        \A k \in 1 .. 7 :
            (response.streak.days >= k)
              <=> (\A i \in 8 - k .. 7 : response.trend[i].status # MISS)

\* C27 witness: a streak of 2 behind a gap, with a check-in before the gap
C27_Witness ==
    /\ response.kind = "dashboard"
    /\ response.streak.days = 2
    /\ response.trend[5].status = MISS
    /\ response.trend[4].status # MISS

----------------------------------------------------------------------------
(* services/prompts.py: schedule_from_anchor. A datetime is an integer     *)
(* number of ticks, TicksPerMinute to the minute, on a time line without   *)
(* clock changes; a time of day is its hour and minute; a text is the      *)
(* sequence of its characters.                                             *)

MinutesPerDay == 1440
TicksPerDay == MinutesPerDay * TicksPerMinute

\* time(hour=h, minute=m)
TimeOfDay(h, m) == [hour |-> h, minute |-> m]

\* datetime.replace(hour=, minute=, second=0, microsecond=0)
ReplaceTime(dt, t) ==
    (dt \div TicksPerDay) * TicksPerDay + (t.hour * 60 + t.minute) * TicksPerMinute

\* datetime.time(): the hour and minute of the time of day (the seconds are
\* read by nothing)
TimeOf(dt) ==
    LET minutes == (dt % TicksPerDay) \div TicksPerMinute
    IN  TimeOfDay(minutes \div 60, minutes % 60)

\* str.lower, on the letters of the texts tried
LowerChar(c) ==
    CASE c = "A" -> "a"
      [] c = "L" -> "l"
      [] c = "I" -> "i"
      [] OTHER -> c

Lowered(text) == [i \in 1 .. Len(text) |-> LowerChar(text[i])]

\* key in text
Contains(text, key) ==
    \E i \in 1 .. Len(text) - Len(key) + 1 :
        SubSeq(text, i, i + Len(key) - 1) = key

MorningKeys ==
    { <<"w", "a", "k", "e">>,
      <<"m", "o", "r", "n", "i", "n", "g">>,
      <<"b", "r", "e", "a", "k", "f", "a", "s", "t">>,
      <<"b", "r", "u", "s", "h", " ", "m", "y", " ", "t", "e", "e", "t", "h">> }

MiddayKeys ==
    { <<"l", "u", "n", "c", "h">>,
      <<"n", "o", "o", "n">>,
      <<"m", "i", "d", "d", "a", "y">> }

EveningKeys ==
    { <<"c", "o", "m", "m", "u", "t", "e", " ", "h", "o", "m", "e">>,
      <<"a", "f", "t", "e", "r", " ", "w", "o", "r", "k">>,
      <<"d", "i", "n", "n", "e", "r">>,
      <<"e", "v", "e", "n", "i", "n", "g">> }

WaitingKeys ==
    { <<"k", "e", "t", "t", "l", "e">>,
      <<"m", "i", "c", "r", "o", "w", "a", "v", "e">>,
      <<"b", "o", "i", "l">> }

\* _guess_anchor_time(anchor_text), with the value of datetime.now() made
\* explicit: a time of day or None
_guess_anchor_time(anchor_text, wall_clock) ==
    LET lowered == Lowered(anchor_text)
        any(keys) == \E key \in keys : Contains(lowered, key)
    IN  IF anchor_text = <<>> THEN None
        ELSE IF any(MorningKeys) THEN Some(TimeOfDay(7, 30))
        ELSE IF any(MiddayKeys) THEN Some(TimeOfDay(12, 0))
        ELSE IF any(EveningKeys) THEN Some(TimeOfDay(18, 30))
        ELSE IF any(WaitingKeys) THEN Some(TimeOf(wall_clock + 5 * TicksPerMinute))
        ELSE None

\* mutant of schedule_from_anchor: only a time strictly before now is moved
\* to tomorrow
schedule_from_anchor_strict(anchor_text, ref, utc_now, wall_clock) ==
    LET current == IF IsNone(ref) THEN utc_now ELSE TheValue(ref)
        t == _guess_anchor_time(IF IsNone(anchor_text) THEN <<>>
                                ELSE TheValue(anchor_text), wall_clock)
    IN  IF ~IsNone(t)
        THEN LET candidate == ReplaceTime(current, TheValue(t))
             IN  [next_fire_at |-> IF candidate < current
                                   THEN candidate + TicksPerDay ELSE candidate,
                  reason |-> "from_anchor"]
        ELSE [next_fire_at |-> ReplaceTime(current, TimeOfDay(9, 0)) + TicksPerDay,
              reason |-> "fallback_morning"]

\* schedule_from_anchor(habit, now), with the values of timezone.now() and
\* datetime.now() made explicit; habit.anchor_text and now are optional
schedule_from_anchor(anchor_text, ref, utc_now, wall_clock) ==
    LET current == IF IsNone(ref) THEN utc_now ELSE TheValue(ref)
        t == _guess_anchor_time(IF IsNone(anchor_text) THEN <<>>
                                ELSE TheValue(anchor_text), wall_clock)
    IN  IF ~IsNone(t)
        THEN LET candidate == ReplaceTime(current, TheValue(t))
             IN  [next_fire_at |-> IF candidate <= current
                                   THEN candidate + TicksPerDay ELSE candidate,
                  reason |-> "from_anchor"]
        ELSE [next_fire_at |-> ReplaceTime(current, TimeOfDay(9, 0)) + TicksPerDay,
              reason |-> "fallback_morning"]

\* the anchor texts tried: none, the empty one, and texts with and without
\* a key
AnchorTexts ==
    { None,
      Some(<<>>),
      Some(<<"A", "f", "t", "e", "r", " ", "I", " ", "w", "a", "k", "e", " ", "u", "p">>),
      Some(<<"a", "f", "t", "e", "r", "n", "o", "o", "n">>),
      Some(<<"L", "u", "n", "c", "h">>),
      Some(<<"a", "f", "t", "e", "r", " ", "d", "i", "n", "n", "e", "r">>),
      Some(<<"k", "e", "t", "t", "l", "e">>),
      Some(<<"m", "o", "r", "n", "i", "n", "g", " ", "k", "e", "t", "t", "l", "e">>),
      Some(<<"r", "e", "a", "d", " ", "a", " ", "p", "a", "g", "e">>) }

\* the instant of a day, hour, minute and tick
At(day, h, m, tick) == day * TicksPerDay + (h * 60 + m) * TicksPerMinute + tick

\* the reference times tried: around midnight and around every time of day
\* the function may choose, on MaxScheduleDays days
ScheduleNows ==
    {At(day, hm[1], hm[2], 0) + d :
        day \in 1 .. MaxScheduleDays,
        hm \in {<<0, 0>>, <<7, 30>>, <<9, 0>>, <<12, 0>>, <<18, 30>>, <<23, 57>>},
        d \in {-1, 0, 1}}

\* the values of datetime.now() tried
WallClocks == {At(1, 7, 26, 1), At(1, 11, 55, 0), At(1, 23, 56, 1)}

ScheduleCalls ==
    {[fn |-> "schedule_from_anchor", anchor_text |-> a, now |-> Some(t),
      utc_now |-> At(1, 7, 30, 0), wall_clock |-> w] :
        a \in AnchorTexts, t \in ScheduleNows, w \in WallClocks}
    \cup {[fn |-> "schedule_from_anchor", anchor_text |-> a, now |-> None,
           utc_now |-> At(1, 7, 30, 0), wall_clock |-> w] :
             a \in AnchorTexts, w \in WallClocks}

InitSchedule ==
    /\ checkins = {}
    /\ hrv_readings = {}
    /\ habit_anchors = {}
    /\ now = 0
    /\ call \in ScheduleCalls
    /\ response = NoResponse
    /\ frame = NoFrame

schedule_call ==
    /\ call.fn = "schedule_from_anchor"
    /\ response' =
         [kind |-> "schedule_from_anchor",
          out |-> schedule_from_anchor(call.anchor_text, call.now, call.utc_now,
                                       call.wall_clock)]
    /\ UNCHANGED <<checkins, hrv_readings, habit_anchors, now, call, frame>>

NextSchedule == schedule_call

SpecSchedule == InitSchedule /\ [][NextSchedule]_vars

\* the reference time of the call: now, or timezone.now() when none is given
ReferenceTime == IF IsNone(call.now) THEN call.utc_now ELSE TheValue(call.now)

\* C29: schedule_from_anchor returns a next_fire_at strictly later than
\* now: when the anchor text yields a time of day, the next occurrence of
\* that time, at most 24 hours after now, with reason "from_anchor";
\* otherwise 09:00 on the calendar day after now with reason
\* "fallback_morning".
C29_NextFireAfterNow ==
    response.kind = "schedule_from_anchor" =>
        LET ref == ReferenceTime
            fire == response.out.next_fire_at
            text == IF IsNone(call.anchor_text) THEN <<>> ELSE TheValue(call.anchor_text)
            t == _guess_anchor_time(text, call.wall_clock)
        IN  /\ fire > ref
            /\ ~IsNone(t) =>
                  /\ response.out.reason = "from_anchor"
                  /\ fire - ref <= TicksPerDay
                  /\ fire % TicksPerMinute = 0
                  /\ TimeOf(fire) = TheValue(t)
            /\ IsNone(t) =>
                  /\ response.out.reason = "fallback_morning"
                  /\ fire = At(ref \div TicksPerDay + 1, 9, 0, 0)

\* C29 witness: at 07:30:00 sharp a morning anchor is scheduled for 07:30
\* of the next day, 24 hours later
C29_Witness ==
    /\ response.kind = "schedule_from_anchor"
    /\ call.anchor_text = Some(<<"A", "f", "t", "e", "r", " ", "I", " ", "w", "a", "k", "e", " ", "u", "p">>)
    /\ call.now = Some(At(1, 7, 30, 0))
    /\ response.out = [next_fire_at |-> At(2, 7, 30, 0), reason |-> "from_anchor"]

====
